---- MODULE Spec2Model ----
(***************************************************************************)
(* Verification model of the hearing-test repository.                      *)
(*                                                                         *)
(* Part 1: the staircase controller (createStaircase / processResponse),   *)
(* a pure state-transition function over heard / notHeard responses.       *)
(* Levels are whole decibels; `null` of the TypeScript source is written   *)
(* "null" for a missing response and << >> for a missing threshold (a      *)
(* threshold v is <<v>>).                                                  *)
(***************************************************************************)
EXTENDS Integers, Sequences, FiniteSets, TLC

\* ------------------------------------------------------------------ bounds
LevelSpan == 2          \* override levels are drawn from -LevelSpan..0
MaxStep == 2            \* override step sizes are drawn from 1..MaxStep
MaxReversalsBound == 2  \* override maxReversals is drawn from 0..MaxReversalsBound
MaxAttemptsBound == 3   \* override maxAttempts is drawn from 0..MaxAttemptsBound
MaxCalls == 4           \* processResponse calls explored per staircase

\* ------------------------------------------------------- staircase: types
Response == {"heard", "notHeard"}

NoResponse == "null"

NoThreshold == << >>

Fields ==
  {"initialLevel", "stepSizeDown", "stepSizeUp", "minLevel", "maxLevel",
   "maxReversals", "maxAttempts"}

\* mutant: the step up is as large as the step down
DEFAULT_CONFIG_EqualSteps ==
  [initialLevel |-> -20, stepSizeDown |-> 6, stepSizeUp |-> 6,
   minLevel |-> -60, maxLevel |-> 0, maxReversals |-> 4, maxAttempts |-> 20]

DEFAULT_CONFIG ==
  [initialLevel |-> -20, stepSizeDown |-> 6, stepSizeUp |-> 3,
   minLevel |-> -60, maxLevel |-> 0, maxReversals |-> 4, maxAttempts |-> 20]

\* Math.max / Math.min on two numbers
Max(a, b) == IF a >= b THEN a ELSE b

Min(a, b) == IF a <= b THEN a ELSE b

\* ------------------------------------------------ staircase: createStaircase
\* { ...DEFAULT_CONFIG, ...config }: the overrides win field by field
MergeConfig(overrides) ==
  [f \in Fields |-> IF f \in DOMAIN overrides THEN overrides[f] ELSE DEFAULT_CONFIG[f]]

\* mutant: the start level is taken from the defaults, not from the merged config
createStaircase_DefaultLevel(overrides) ==
  LET fullConfig == MergeConfig(overrides)
  IN [state |-> [currentLevel |-> DEFAULT_CONFIG.initialLevel,
                 stepSize |-> fullConfig.stepSizeDown,
                 direction |-> "down",
                 reversals |-> 0,
                 attempts |-> 0,
                 lastResponse |-> NoResponse,
                 threshold |-> NoThreshold],
      config |-> fullConfig]

createStaircase(overrides) ==
  LET fullConfig == MergeConfig(overrides)
  IN [state |-> [currentLevel |-> fullConfig.initialLevel,
                 stepSize |-> fullConfig.stepSizeDown,
                 direction |-> "down",
                 reversals |-> 0,
                 attempts |-> 0,
                 lastResponse |-> NoResponse,
                 threshold |-> NoThreshold],
      config |-> fullConfig]

\* ----------------------------------------------- staircase: processResponse
\* mutant: the attempt is not counted
RecordResponse_NoIncrement(state, response) ==
  [state EXCEPT !.lastResponse = response]

\* const newState = { ...state }; newState.attempts += 1; newState.lastResponse = response
RecordResponse(state, response) ==
  [state EXCEPT !.attempts = @ + 1, !.lastResponse = response]

\* mutant: === in place of >=
AttemptsExhausted_Exact(newState, config) == newState.attempts = config.maxAttempts

\* mutant: > in place of >=
AttemptsExhausted_Strict(newState, config) == newState.attempts > config.maxAttempts

\* if (newState.attempts >= config.maxAttempts)
AttemptsExhausted(newState, config) == newState.attempts >= config.maxAttempts

\* mutant: the threshold is returned but not stored in newState
Terminate_Unrecorded(newState) ==
  [newState |-> newState, shouldContinue |-> FALSE, threshold |-> <<newState.currentLevel>>]

\* newState.threshold = newState.currentLevel; return { newState, shouldContinue: false, threshold }
Terminate(newState) ==
  LET final == [newState EXCEPT !.threshold = <<newState.currentLevel>>]
  IN [newState |-> final, shouldContinue |-> FALSE, threshold |-> final.threshold]

\* return { newState, shouldContinue: true, threshold: null }
Continue(newState) ==
  [newState |-> newState, shouldContinue |-> TRUE, threshold |-> NoThreshold]

\* mutant: the notHeard branch loses its Math.min clamp
UpdateLevel_UnclampedUp(newState, config, response) ==
  IF response = "heard"
  THEN [newState EXCEPT
          !.direction = "down",
          !.currentLevel = Max(config.minLevel, newState.currentLevel - config.stepSizeDown),
          !.stepSize = config.stepSizeDown]
  ELSE [newState EXCEPT
          !.direction = "up",
          !.currentLevel = newState.currentLevel + config.stepSizeUp,
          !.stepSize = config.stepSizeUp]

\* mutant: the heard branch loses its Math.max clamp
UpdateLevel_Unclamped(newState, config, response) ==
  IF response = "heard"
  THEN [newState EXCEPT
          !.direction = "down",
          !.currentLevel = newState.currentLevel - config.stepSizeDown,
          !.stepSize = config.stepSizeDown]
  ELSE [newState EXCEPT
          !.direction = "up",
          !.currentLevel = Min(config.maxLevel, newState.currentLevel + config.stepSizeUp),
          !.stepSize = config.stepSizeUp]

\* mutant: the two step sizes are exchanged
UpdateLevel_SwappedSteps(newState, config, response) ==
  IF response = "heard"
  THEN [newState EXCEPT
          !.direction = "down",
          !.currentLevel = Max(config.minLevel, newState.currentLevel - config.stepSizeUp),
          !.stepSize = config.stepSizeUp]
  ELSE [newState EXCEPT
          !.direction = "up",
          !.currentLevel = Min(config.maxLevel, newState.currentLevel + config.stepSizeDown),
          !.stepSize = config.stepSizeDown]

\* the heard / notHeard branches: direction, clamped level, stepSize
UpdateLevel(newState, config, response) ==
  IF response = "heard"
  THEN [newState EXCEPT
          !.direction = "down",
          !.currentLevel = Max(config.minLevel, newState.currentLevel - config.stepSizeDown),
          !.stepSize = config.stepSizeDown]
  ELSE [newState EXCEPT
          !.direction = "up",
          !.currentLevel = Min(config.maxLevel, newState.currentLevel + config.stepSizeUp),
          !.stepSize = config.stepSizeUp]

\* mutant: the prior-response condition is dropped
ReversalDetected_NoPriorCheck(previousDirection, updated, state) ==
  previousDirection # updated.direction

\* mutant: || in place of &&
ReversalDetected_Or(previousDirection, updated, state) ==
  previousDirection # updated.direction \/ state.lastResponse # NoResponse

\* previousDirection !== newState.direction && state.lastResponse !== null
ReversalDetected(previousDirection, updated, state) ==
  previousDirection # updated.direction /\ state.lastResponse # NoResponse

\* mutant: a reversal is counted only when the level moved
CountReversal_OnlyIfMoved(recorded, updated, state) ==
  LET previousDirection == recorded.direction
  IN IF /\ previousDirection # updated.direction
        /\ state.lastResponse # NoResponse
        /\ updated.currentLevel # recorded.currentLevel
     THEN [updated EXCEPT !.reversals = @ + 1]
     ELSE updated

\* mutant: previousDirection is read after the direction was updated
CountReversal_DirectionAfterUpdate(recorded, updated, state) ==
  LET previousDirection == updated.direction
  IN IF previousDirection # updated.direction /\ state.lastResponse # NoResponse
     THEN [updated EXCEPT !.reversals = @ + 1]
     ELSE updated

\* if (reversalDetected) newState.reversals += 1
CountReversal(recorded, updated, state) ==
  LET previousDirection == recorded.direction
  IN IF ReversalDetected(previousDirection, updated, state)
     THEN [updated EXCEPT !.reversals = @ + 1]
     ELSE updated

\* mutant: > in place of >=
ReversalsReached_Strict(newState, config) == newState.reversals > config.maxReversals

\* if (newState.reversals >= config.maxReversals)
ReversalsReached(newState, config) == newState.reversals >= config.maxReversals

\* mutant: the maxAttempts check runs after the level and reversal update
processResponse_LateCheck(state, config, response) ==
  LET recorded == [state EXCEPT !.attempts = @ + 1, !.lastResponse = response]
      updated ==
        IF response = "heard"
        THEN [recorded EXCEPT
                !.direction = "down",
                !.currentLevel = Max(config.minLevel, recorded.currentLevel - config.stepSizeDown),
                !.stepSize = config.stepSizeDown]
        ELSE [recorded EXCEPT
                !.direction = "up",
                !.currentLevel = Min(config.maxLevel, recorded.currentLevel + config.stepSizeUp),
                !.stepSize = config.stepSizeUp]
      counted ==
        IF recorded.direction # updated.direction /\ state.lastResponse # NoResponse
        THEN [updated EXCEPT !.reversals = @ + 1]
        ELSE updated
      final == [counted EXCEPT !.threshold = <<counted.currentLevel>>]
  IN IF counted.attempts >= config.maxAttempts \/ counted.reversals >= config.maxReversals
     THEN [newState |-> final, shouldContinue |-> FALSE, threshold |-> final.threshold]
     ELSE [newState |-> counted, shouldContinue |-> TRUE, threshold |-> NoThreshold]

processResponse(state, config, response) ==
  LET recorded == RecordResponse(state, response)
  IN IF AttemptsExhausted(recorded, config)
     THEN Terminate(recorded)
     ELSE LET updated == UpdateLevel(recorded, config, response)
              counted == CountReversal(recorded, updated, state)
          IN IF ReversalsReached(counted, config)
             THEN Terminate(counted)
             ELSE Continue(counted)

\* mutant: const newState = state, so every write of the call lands in the caller's object
ArgumentAfter_Aliased(state, result) == result.newState

\* The caller's state object as it is once the call has returned.  newState is
\* a fresh object ({ ...state }, all fields primitive) and every assignment of
\* processResponse targets newState, so the object passed in keeps its fields.
ArgumentAfter(state, result) == state

getCurrentLevel(state) == state.currentLevel

\* --------------------------------------------------------- staircase: inputs
Levels == (0 - LevelSpan)..0

FieldValues(f) ==
  CASE f \in {"initialLevel", "minLevel", "maxLevel"} -> Levels
    [] f \in {"stepSizeDown", "stepSizeUp"} -> 1..MaxStep
    [] f = "maxReversals" -> 0..MaxReversalsBound
    [] f = "maxAttempts" -> 0..MaxAttemptsBound

\* the values an override of field f is drawn from when f is among the given fields
Given(f, D) == IF f \in D THEN FieldValues(f) ELSE {DEFAULT_CONFIG[f]}

\* the override objects that give exactly the fields D
OverridesOn(D) ==
  { [f \in D |-> c[f]] :
      c \in [initialLevel : Given("initialLevel", D),
             stepSizeDown : Given("stepSizeDown", D),
             stepSizeUp : Given("stepSizeUp", D),
             minLevel : Given("minLevel", D),
             maxLevel : Given("maxLevel", D),
             maxReversals : Given("maxReversals", D),
             maxAttempts : Given("maxAttempts", D)] }

\* spec data model: minLevel <= initialLevel <= maxLevel, all steps > 0
ValidConfig(c) ==
  /\ c.minLevel <= c.initialLevel
  /\ c.initialLevel <= c.maxLevel
  /\ c.stepSizeDown > 0
  /\ c.stepSizeUp > 0

\* =========================================================================
\* Part 2: the tone playback engine (class AudioEngine) on the Web Audio API.
\* Object references are indices: 0 is null, c >= 1 is the c-th AudioContext
\* (contexts[c]), the m-th master GainNode (masters[m]), the t-th tone
\* (tones[t]: one oscillator with its envelope gain, level gain and panner).
\* Times are whole milliseconds; gains are in units of 1/10000.
\* =========================================================================

\* ------------------------------------------------------------ engine: bounds
MaxToneCalls == 2     \* playTone calls that built a tone or are suspended
MaxInitCalls == 1     \* initialize calls suspended at the same time
MaxContexts == 2      \* AudioContext objects created
MaxTonesPlayed == 1   \* playTone calls of the tone parameter exploration

\* --------------------------------------------------------- engine: requests
Ear == {"left", "right", "both"}

NoDuration == << >>

\* PlayToneOptions values the clients are explored with; durationMs is optional
Requests ==
  { [frequency |-> 250, ear |-> "right", level |-> 0, durationMs |-> NoDuration],
    [frequency |-> 4000, ear |-> "left", level |-> 6, durationMs |-> <<100>>] }

\* level values in dB: the reference, two quieter levels, one above the reference
ToneLevels == {0, -20, -60, 6}

\* durationMs values in ms: omitted, the shortest with a sustain of 0 ms and longer ones
Durations == {NoDuration, <<60>>, <<61>>, <<100>>, <<1000>>}

\* PlayToneOptions values the tone parameters are explored with
ToneRequests ==
  [frequency : {1000}, ear : Ear, level : ToneLevels, durationMs : Durations]

\* masterGain.gain.value = 0.5, in percent
MasterVolume == 50

\* const { durationMs = 1000 } = options
DefaultDurationMs == 1000

\* attackTime = 0.01 s, releaseTime = 0.05 s
AttackMs == 10

ReleaseMs == 50

\* referenceGain = 0.3, in units of 1/10000
ReferenceGain == 3000

\* Math.pow(10, level / 20) in units of 1/10000, for the levels of ToneLevels
Pow10Of20th(level) ==
  CASE level = 0 -> 10000
    [] level = -20 -> 1000
    [] level = -60 -> 10
    [] level = 6 -> 19953

\* mutant: the level gain is not scaled by referenceGain
LinearGain_Unscaled(level) == Pow10Of20th(level)

\* linearGain = referenceGain * Math.pow(10, level / 20), rounded to 1/10000
LinearGain(level) == (ReferenceGain * Pow10Of20th(level) + 5000) \div 10000

\* mutant: every ear other than "left" is routed hard right
Pan_RightUnlessLeft(ear) == IF ear = "left" THEN -1 ELSE 1

\* panNode.pan.value for the requested ear
Pan(ear) == IF ear = "left" THEN -1 ELSE IF ear = "right" THEN 1 ELSE 0

\* mutant: an omitted durationMs gives a tone of no length
DurationOf_NoDefault(options) ==
  IF options.durationMs = NoDuration THEN 0 ELSE options.durationMs[1]

\* const { durationMs = 1000 } = options
DurationOf(options) ==
  IF options.durationMs = NoDuration THEN DefaultDurationMs ELSE options.durationMs[1]

\* the automation events scheduled on envelopeGain.gain, in call order, at
\* times in ms after `now`
Envelope(attackMs, sustainMs, releaseMs) ==
  << [method |-> "setValueAtTime", value |-> 0, at |-> 0],
     [method |-> "linearRampToValueAtTime", value |-> 1, at |-> attackMs],
     [method |-> "setValueAtTime", value |-> 1, at |-> attackMs + sustainMs],
     [method |-> "linearRampToValueAtTime", value |-> 0,
      at |-> attackMs + sustainMs + releaseMs] >>

\* ------------------------------------------------- engine: array operations
InSeq(x, list) == \E i \in 1..Len(list) : list[i] = x

\* mutant: the filter keeps the ended node and drops the others
Remove_KeepsEnded(list, x) == SelectSeq(list, LAMBDA y : y = x)

\* list.filter((node) => node !== x)
Remove(list, x) == SelectSeq(list, LAMBDA y : y # x)

\* ------------------------------------------------------- engine: initialize
\* new AudioContext(), created in state `fresh`
CreateContext(e, fresh) ==
  [e EXCEPT !.contexts = Append(@, fresh), !.audioContext = Len(e.contexts) + 1]

\* mutant: the master gain keeps the default gain of a new GainNode, 1
CreateMaster_FullVolume(e) ==
  [e EXCEPT !.masters = Append(@, [ctx |-> e.audioContext, gain |-> 100]),
            !.masterGain = Len(e.masters) + 1]

\* this.masterGain = this.audioContext.createGain(); connect; gain.value = 0.5
CreateMaster(e) ==
  [e EXCEPT !.masters = Append(@, [ctx |-> e.audioContext, gain |-> MasterVolume]),
            !.masterGain = Len(e.masters) + 1]

\* mutant: the master gain is created without the `if (!this.masterGain)` test
initializeFinish_NewMaster(e) ==
  IF e.audioContext = 0
  THEN [engine |-> e, outcome |-> "failed"]
  ELSE [engine |-> [CreateMaster(e) EXCEPT !.isInitialized = TRUE], outcome |-> "done"]

\* initialize() after `await this.audioContext.resume()`, or straight on when
\* the context is not suspended.  this.audioContext is read again here: it is
\* null when dispose ran during the await, and createGain then throws.
initializeFinish(e) ==
  IF e.masterGain = 0 /\ e.audioContext = 0
  THEN [engine |-> e, outcome |-> "failed"]
  ELSE [engine |-> [(IF e.masterGain = 0 THEN CreateMaster(e) ELSE e)
                      EXCEPT !.isInitialized = TRUE],
        outcome |-> "done"]

\* initialize() up to its first await.  fresh is what `new AudioContext()`
\* gives when it is needed: "suspended", "running", or "throws".
initializeStart(e, fresh) ==
  IF e.isInitialized /\ e.audioContext # 0 /\ e.contexts[e.audioContext] = "running"
  THEN [engine |-> e, outcome |-> "done"]
  ELSE IF e.audioContext = 0 /\ fresh = "throws"
  THEN [engine |-> e, outcome |-> "failed"]
  ELSE LET e1 == IF e.audioContext = 0 THEN CreateContext(e, fresh) ELSE e
       IN IF e1.contexts[e1.audioContext] = "suspended"
          THEN [engine |-> e1, outcome |-> "resume"]
          ELSE initializeFinish(e1)

\* --------------------------------------------------------- engine: playTone
\* the nodes playTone builds for one request, scheduled from the context's now
NewTone(e, options, stopped) ==
  LET sustainMs == DurationOf(options) - AttackMs - ReleaseMs
  IN [ctx |-> e.audioContext,
      master |-> e.masterGain,
      frequency |-> options.frequency,
      pan |-> Pan(options.ear),
      linearGain |-> LinearGain(options.level),
      attackEnd |-> AttackMs,
      sustainEnd |-> AttackMs + sustainMs,
      releaseEnd |-> AttackMs + sustainMs + ReleaseMs,
      envelope |-> Envelope(AttackMs, sustainMs, ReleaseMs),
      stopAt |-> AttackMs + sustainMs + ReleaseMs,
      elapsed |-> 0,
      osc |-> "playing",
      zeroed |-> FALSE,
      forced |-> FALSE,
      handled |-> FALSE,
      promise |-> "pending",
      afterStop |-> stopped]

\* mutant: the promise is resolved as soon as the oscillator is started
playToneFinish_ResolvesAtStart(e, options, stopped) ==
  IF e.audioContext = 0 \/ e.masterGain = 0
  THEN [engine |-> e, promise |-> "rejected"]
  ELSE LET t == Len(e.tones) + 1
           tone == [NewTone(e, options, stopped) EXCEPT !.promise = "resolved"]
       IN [engine |-> [e EXCEPT !.tones = Append(@, tone),
                                !.activeOscillators = Append(@, t),
                                !.activeGainNodes = Append(@, t)],
           promise |-> "resolved"]

\* playTone() from its second null check on: throw, or build the chain, track
\* the oscillator and the envelope gain, start, and return the promise that
\* oscillator.onended resolves.  stopped: a stopAll ran since playTone was called.
playToneFinish(e, options, stopped) ==
  IF e.audioContext = 0 \/ e.masterGain = 0
  THEN [engine |-> e, promise |-> "rejected"]
  ELSE LET t == Len(e.tones) + 1
       IN [engine |-> [e EXCEPT !.tones = Append(@, NewTone(e, options, stopped)),
                                !.activeOscillators = Append(@, t),
                                !.activeGainNodes = Append(@, t)],
           promise |-> "pending"]

\* ---------------------------------------------------------- engine: stopAll
\* mutant: no try/catch around osc.stop()
TryStop_Uncaught(tone, raises) ==
  [tone |-> IF ~raises /\ tone.osc = "playing"
            THEN [tone EXCEPT !.osc = "stopped", !.forced = TRUE] ELSE tone,
   caught |-> FALSE,
   thrown |-> raises]

\* try { osc.stop() } catch (e) {}
TryStop(tone, raises) ==
  [tone |-> IF ~raises /\ tone.osc = "playing"
            THEN [tone EXCEPT !.osc = "stopped", !.forced = TRUE] ELSE tone,
   caught |-> raises,
   thrown |-> FALSE]

\* try { gain.gain.cancelScheduledValues(now); gain.gain.setValueAtTime(0, now) } catch (e) {}
\* this.audioContext!.currentTime throws a TypeError when audioContext is null
TrySilence(tone, contextIsNull) ==
  [tone |-> IF contextIsNull THEN tone ELSE [tone EXCEPT !.zeroed = TRUE],
   caught |-> contextIsNull,
   thrown |-> FALSE]

RECURSIVE StopEach(_, _, _)
\* this.activeOscillators.forEach(...), left to right, up to the first uncaught error
StopEach(ts, list, faults) ==
  IF list = << >>
  THEN [tones |-> ts, caught |-> {}, thrown |-> FALSE, swept |-> << >>]
  ELSE LET t == Head(list)
           one == TryStop(ts[t], t \in faults)
       IN IF one.thrown
          THEN [tones |-> ts, caught |-> {}, thrown |-> TRUE, swept |-> <<t>>]
          ELSE LET rest == StopEach([ts EXCEPT ![t] = one.tone], Tail(list), faults)
               IN [tones |-> rest.tones,
                   caught |-> rest.caught \cup (IF one.caught THEN {t} ELSE {}),
                   thrown |-> rest.thrown,
                   swept |-> <<t>> \o rest.swept]

RECURSIVE SilenceEach(_, _, _)
\* this.activeGainNodes.forEach(...)
SilenceEach(ts, list, contextIsNull) ==
  IF list = << >>
  THEN [tones |-> ts, caught |-> {}, thrown |-> FALSE]
  ELSE LET t == Head(list)
           one == TrySilence(ts[t], contextIsNull)
       IN IF one.thrown
          THEN [tones |-> ts, caught |-> {}, thrown |-> TRUE]
          ELSE LET rest == SilenceEach([ts EXCEPT ![t] = one.tone], Tail(list), contextIsNull)
               IN [tones |-> rest.tones,
                   caught |-> rest.caught \cup (IF one.caught THEN {t} ELSE {}),
                   thrown |-> rest.thrown]

\* mutant: only the oscillator array is emptied
stopAll_KeepsGains(e, faults) ==
  LET stopped == StopEach(e.tones, e.activeOscillators, faults)
      silenced == SilenceEach(stopped.tones, e.activeGainNodes, e.audioContext = 0)
  IN [engine |-> [e EXCEPT !.tones = silenced.tones, !.activeOscillators = << >>],
      thrown |-> FALSE,
      caught |-> stopped.caught \cup silenced.caught,
      swept |-> stopped.swept]

\* stopAll(): faults are the tracked oscillators whose stop() raises
stopAll(e, faults) ==
  LET stopped == StopEach(e.tones, e.activeOscillators, faults)
      silenced == SilenceEach(stopped.tones, e.activeGainNodes, e.audioContext = 0)
  IN IF stopped.thrown
     THEN [engine |-> [e EXCEPT !.tones = stopped.tones],
           thrown |-> TRUE, caught |-> stopped.caught, swept |-> stopped.swept]
     ELSE IF silenced.thrown
     THEN [engine |-> [e EXCEPT !.tones = silenced.tones],
           thrown |-> TRUE, caught |-> stopped.caught \cup silenced.caught,
           swept |-> stopped.swept]
     ELSE [engine |-> [e EXCEPT !.tones = silenced.tones,
                                !.activeOscillators = << >>,
                                !.activeGainNodes = << >>],
           thrown |-> FALSE,
           caught |-> stopped.caught \cup silenced.caught,
           swept |-> stopped.swept]

\* mutant: dispose forgets the context but keeps the master gain
dispose_KeepsMaster(e, faults) ==
  LET swept == stopAll(e, faults)
      e1 == swept.engine
  IN [swept EXCEPT !.engine =
        [e1 EXCEPT !.contexts = IF e1.audioContext = 0 THEN @
                                ELSE [@ EXCEPT ![e1.audioContext] = "closed"],
                   !.audioContext = 0,
                   !.isInitialized = FALSE]]

\* dispose(): stopAll, close the context (a rejection of close() is swallowed),
\* and forget the context and the master gain
dispose(e, faults) ==
  LET swept == stopAll(e, faults)
      e1 == swept.engine
  IN IF swept.thrown
     THEN swept
     ELSE [swept EXCEPT !.engine =
             [e1 EXCEPT !.contexts = IF e1.audioContext = 0 THEN @
                                     ELSE [@ EXCEPT ![e1.audioContext] = "closed"],
                        !.audioContext = 0,
                        !.masterGain = 0,
                        !.isInitialized = FALSE]]

\* =========================================================================
\* Part 3: the result storage (saveTestResult / loadStoredResults) on
\* localStorage.  The item under STORAGE_KEY is << >> when absent and
\* <<text>> when present; a text is valid JSON or not.  lastResult null is
\* << >>, a result r is <<r>>.
\* =========================================================================
MaxSaves == 11          \* saveTestResult calls explored

FREQUENCIES == <<250, 500, 1000, 2000, 4000, 8000>>

Frequency == {FREQUENCIES[i] : i \in 1..Len(FREQUENCIES)}

TestedEars == {"left", "right"}

STORAGE_VERSION == "1.0.0"

\* if (stored.history.length > 10) stored.history = stored.history.slice(0, 10)
HistoryLimit == 10

NoItem == << >>

NoResult == << >>

\* { version: STORAGE_VERSION, lastResult: null, history: [] }
EmptyStored == [version |-> STORAGE_VERSION, lastResult |-> NoResult, history |-> << >>]

\* JSON text of a threshold: the token null, or a sign and decimal digits
NumberText(value) ==
  IF value = NoThreshold
  THEN [null |-> TRUE, minus |-> FALSE, digits |-> 0]
  ELSE [null |-> FALSE, minus |-> value[1] < 0,
        digits |-> IF value[1] < 0 THEN 0 - value[1] ELSE value[1]]

\* the value JSON.parse reads from such a text
TextNumber(text) ==
  IF text.null THEN NoThreshold
  ELSE IF text.minus THEN <<0 - text.digits>> ELSE <<text.digits>>

\* JSON text of a TestResult
ResultText(result) ==
  [id |-> result.id,
   baselineVolumeInstructionAcknowledged |-> result.baselineVolumeInstructionAcknowledged,
   thresholds |-> [ear \in TestedEars |->
                     [f \in Frequency |-> NumberText(result.thresholds[ear][f])]]]

TextResult(text) ==
  [id |-> text.id,
   baselineVolumeInstructionAcknowledged |-> text.baselineVolumeInstructionAcknowledged,
   thresholds |-> [ear \in TestedEars |->
                     [f \in Frequency |-> TextNumber(text.thresholds[ear][f])]]]

\* JSON.stringify(stored)
Stringify(stored) ==
  [valid |-> TRUE,
   version |-> stored.version,
   lastResult |-> IF stored.lastResult = NoResult THEN << >>
                  ELSE <<ResultText(stored.lastResult[1])>>,
   history |-> [i \in 1..Len(stored.history) |-> ResultText(stored.history[i])]]

\* JSON.parse(text) of a valid text
Parse(text) ==
  [version |-> text.version,
   lastResult |-> IF text.lastResult = << >> THEN NoResult
                  ELSE <<TextResult(text.lastResult[1])>>,
   history |-> [i \in 1..Len(text.history) |-> TextResult(text.history[i])]]

\* an item that is not JSON: JSON.parse throws
CorruptText == [valid |-> FALSE, version |-> "", lastResult |-> << >>, history |-> << >>]

\* an item written by another version of the application
OtherVersionText ==
  [valid |-> TRUE, version |-> "0.9.0", lastResult |-> << >>, history |-> << >>]

\* loadStoredResults() in the browser, on the item localStorage holds
loadStoredResults(item) ==
  IF item = NoItem
  THEN EmptyStored
  ELSE IF ~item[1].valid
  THEN EmptyStored
  ELSE LET parsed == Parse(item[1])
       IN IF parsed.version # STORAGE_VERSION THEN EmptyStored ELSE parsed

\* mutant: push in place of unshift
saveTestResult_Push(item, result, hasWindow, quotaExceeded) ==
  IF ~hasWindow \/ quotaExceeded
  THEN item
  ELSE LET stored == loadStoredResults(item)
           pushed == [stored EXCEPT !.lastResult = <<result>>,
                                    !.history = Append(@, result)]
           kept == IF Len(pushed.history) > HistoryLimit
                   THEN [pushed EXCEPT !.history = SubSeq(@, 1, HistoryLimit)]
                   ELSE pushed
       IN <<Stringify(kept)>>

\* saveTestResult(result): the item localStorage holds after the call.
\* hasWindow: typeof window !== "undefined"; quotaExceeded: setItem throws, the
\* catch logs the error and the item stays as it was.
saveTestResult(item, result, hasWindow, quotaExceeded) ==
  IF ~hasWindow \/ quotaExceeded
  THEN item
  ELSE LET stored == loadStoredResults(item)
           unshifted == [stored EXCEPT !.lastResult = <<result>>,
                                       !.history = <<result>> \o @]
           kept == IF Len(unshifted.history) > HistoryLimit
                   THEN [unshifted EXCEPT !.history = SubSeq(@, 1, HistoryLimit)]
                   ELSE unshifted
       IN <<Stringify(kept)>>

\* getLastResult()
getLastResult(item) == loadStoredResults(item).lastResult

\* the n-th TestResult of the storage exploration: ids are unique
\* (crypto.randomUUID), thresholds are levels or null
SampleResult(n) ==
  [id |-> n,
   baselineVolumeInstructionAcknowledged |-> TRUE,
   thresholds |-> [ear \in TestedEars |->
                     [f \in Frequency |->
                        IF ear = "left" THEN <<0 - 3 * (n % 3)>>
                        ELSE IF n % 2 = 0 THEN NoThreshold ELSE <<0>>]]]

VARIABLES
  storage,   \* the localStorage item under STORAGE_KEY
  saved      \* history: the saveTestResult calls so far: [result, written]

storageVars == <<storage, saved>>

\* no item stored, no call made
StorageIdle == storage = NoItem /\ saved = << >>

\* =========================================================================
\* Part 4: the test wizard (component TestWizard of page.tsx).  React state
\* is one variable per useState; a handler runs to its end, then the
\* component re-renders and its effects run until no effect changes the
\* state.  The playback engine is seen through its contract: the promise of
\* audioEngine.playTone settles when the tone has ended or the call failed.
\* =========================================================================
MaxInFlight == 2        \* audioEngine.playTone calls not yet settled
MaxCooldowns == 1       \* pending 500 ms timers of playTone's finally
MaxResets == 1          \* pending 1000 ms timers of handleEmergencyStop
MaxRightChecks == 1     \* pending 500 ms timers of handleHeadphoneResponse("left", true)
MaxResponsesPerTone == 1  \* response clicks while one audioEngine.playTone call is in flight

TestSteps == {"test-left", "test-right"}

NoStaircase == << >>

NoThresholds == [f \in Frequency |-> NoThreshold]

\* the useState initial values of TestWizard
InitialTestState ==
  [headphoneCheckLeft |-> FALSE,
   headphoneCheckRight |-> FALSE,
   quietRoomConfirmed |-> FALSE,
   leftThresholds |-> NoThresholds,
   rightThresholds |-> NoThresholds,
   currentEar |-> "null",
   currentFrequencyIndex |-> 0,
   staircaseState |-> NoStaircase,
   testComplete |-> FALSE]

\* createStaircase() without overrides
NoOverrides == << >>

\* FREQUENCIES[testState.currentFrequencyIndex]
CurrentFreq(ts) == FREQUENCIES[ts.currentFrequencyIndex + 1]

\* step === "test-left" ? "left" : "right"
EarOf(page) == IF page = "test-left" THEN "left" ELSE "right"

\* mutant: the next frequency goes on with the staircase at hand
NextFrequency_KeepsStaircase(prev, isLeft, newThresholds, nextIndex) ==
  IF isLeft
  THEN [prev EXCEPT !.leftThresholds = newThresholds,
                    !.currentFrequencyIndex = nextIndex]
  ELSE [prev EXCEPT !.rightThresholds = newThresholds,
                    !.currentFrequencyIndex = nextIndex]

\* the "Next frequency" branch of the setTestState updater
NextFrequency(prev, isLeft, newThresholds, nextIndex) ==
  LET newStaircase == createStaircase(NoOverrides)
  IN IF isLeft
     THEN [prev EXCEPT !.leftThresholds = newThresholds,
                       !.currentFrequencyIndex = nextIndex,
                       !.staircaseState = <<newStaircase>>]
     ELSE [prev EXCEPT !.rightThresholds = newThresholds,
                       !.currentFrequencyIndex = nextIndex,
                       !.staircaseState = <<newStaircase>>]

\* mutant: the test is complete when the left ear is
FrequencyComplete_EndsAfterLeft(prev, isLeft, currentFreq, result) ==
  LET newThresholds ==
        IF isLeft
        THEN [prev.leftThresholds EXCEPT ![currentFreq] = result.threshold]
        ELSE [prev.rightThresholds EXCEPT ![currentFreq] = result.threshold]
      nextIndex == prev.currentFrequencyIndex + 1
  IN IF nextIndex >= Len(FREQUENCIES)
     THEN IF isLeft
          THEN [prev EXCEPT !.leftThresholds = newThresholds,
                            !.currentFrequencyIndex = 0,
                            !.staircaseState = NoStaircase,
                            !.testComplete = TRUE]
          ELSE [prev EXCEPT !.rightThresholds = newThresholds,
                            !.testComplete = TRUE]
     ELSE NextFrequency(prev, isLeft, newThresholds, nextIndex)

\* the "Frequency complete" setTestState updater
FrequencyComplete(prev, isLeft, currentFreq, result) ==
  LET newThresholds ==
        IF isLeft
        THEN [prev.leftThresholds EXCEPT ![currentFreq] = result.threshold]
        ELSE [prev.rightThresholds EXCEPT ![currentFreq] = result.threshold]
      nextIndex == prev.currentFrequencyIndex + 1
  IN IF nextIndex >= Len(FREQUENCIES)
     THEN IF isLeft
          THEN [prev EXCEPT !.leftThresholds = newThresholds,
                            !.currentFrequencyIndex = 0,
                            !.staircaseState = NoStaircase]
          ELSE [prev EXCEPT !.rightThresholds = newThresholds,
                            !.testComplete = TRUE]
     ELSE NextFrequency(prev, isLeft, newThresholds, nextIndex)

\* mutant: the terminated state is kept as the staircase of the run
handleTestResponse_KeepsTerminated(page, ts, response) ==
  IF ts.staircaseState = NoStaircase
  THEN ts
  ELSE LET staircase == ts.staircaseState[1]
           result == processResponse(staircase.state, staircase.config, response)
       IN [ts EXCEPT !.staircaseState = <<[staircase EXCEPT !.state = result.newState]>>]

\* handleTestResponse(response): the testState after the handler's update
handleTestResponse(page, ts, response) ==
  IF ts.staircaseState = NoStaircase
  THEN ts
  ELSE LET staircase == ts.staircaseState[1]
           result == processResponse(staircase.state, staircase.config, response)
       IN IF ~result.shouldContinue /\ result.threshold # NoThreshold
          THEN FrequencyComplete(ts, page = "test-left", CurrentFreq(ts), result)
          ELSE [ts EXCEPT !.staircaseState = <<[staircase EXCEPT !.state = result.newState]>>]

\* the condition of the effect "Initialize staircase when starting a frequency test"
NeedsStaircase(page, ts) ==
  page \in TestSteps /\ ts.staircaseState = NoStaircase /\ ~ts.testComplete

\* the condition of the effect "Move to right ear when left is complete"
LeftComplete(page, ts) ==
  /\ page = "test-left"
  /\ ts.currentFrequencyIndex = 0
  /\ ts.staircaseState = NoStaircase
  /\ \E f \in Frequency : ts.leftThresholds[f] # NoThreshold
  /\ \A f \in Frequency : ts.leftThresholds[f] # NoThreshold

\* the condition of the effect "Save results and show results page when complete"
ReadyToSave(page, ts) == ts.testComplete /\ page = "test-right"

\* the TestResult the save effect builds; id stands for crypto.randomUUID()
BuildResult(ts, id) ==
  [id |-> id,
   baselineVolumeInstructionAcknowledged |-> TRUE,
   thresholds |-> [ear \in TestedEars |->
                     IF ear = "left" THEN ts.leftThresholds ELSE ts.rightThresholds]]

\* one commit: the effects run on the rendered state w = [step, testState,
\* savedResult, storage, saved] in the order of their definition, their state
\* updates are applied together
Effects(w, quotaExceeded) ==
  LET ts == w.testState
      withStaircase ==
        IF NeedsStaircase(w.step, ts)
        THEN [ts EXCEPT !.staircaseState = <<createStaircase(NoOverrides)>>]
        ELSE ts
      switched ==
        IF LeftComplete(w.step, ts)
        THEN [withStaircase EXCEPT !.currentFrequencyIndex = 0]
        ELSE withStaircase
      result == BuildResult(ts, Len(w.saved) + 1)
  IN IF ReadyToSave(w.step, ts)
     THEN [w EXCEPT !.testState = switched,
                    !.step = "results",
                    !.savedResult = <<result>>,
                    !.storage = saveTestResult(@, result, TRUE, quotaExceeded),
                    !.saved = Append(@, [result |-> result, written |-> ~quotaExceeded])]
     ELSE [w EXCEPT !.testState = switched,
                    !.step = IF LeftComplete(w.step, ts) THEN "test-right" ELSE @]

RECURSIVE Settle(_, _)
\* render and run the effects until a commit changes nothing
Settle(w, quotaExceeded) ==
  LET next == Effects(w, quotaExceeded)
  IN IF next = w THEN w ELSE Settle(next, quotaExceeded)

\* the listeners the responses are drawn from: one hears every tone at or
\* above -30 dB, one presses the two buttons in turn, one hears every tone
\* (its runs end at maxAttempts)
Listeners == {"hearsFromMinus30", "alternates", "hearsEverything"}

\* the button such a listener presses for the staircase state at hand
Respond(kind, state) ==
  CASE kind = "hearsFromMinus30" ->
         (IF state.currentLevel >= -30 THEN "heard" ELSE "notHeard")
    [] kind = "alternates" ->
         (IF state.lastResponse = "heard" THEN "notHeard" ELSE "heard")
    [] kind = "hearsEverything" -> "heard"

VARIABLES
  step,                  \* useState<Step>
  testState,             \* useState<TestState>
  isPlaying,             \* useState(false)
  canRepeat,             \* useState(true)
  emergencyStop,         \* useState(false)
  headphoneCheckFailed,  \* useState(false)
  savedResult,           \* useState<TestResult | null>: << >> or <<result>>
  timers,                \* the pending setTimeout callbacks, by kind
  playing,               \* the audioEngine.playTone calls not yet settled, in call order
  listener,              \* the listener at each ear
  presented              \* history: a tone of the current run and level has played to its end since the last response

wizardVars ==
  <<step, testState, isPlaying, canRepeat, emergencyStop, headphoneCheckFailed,
    savedResult, timers, playing, listener, presented>>

NoTimers == [autoPlay |-> FALSE, cooldown |-> 0, reset |-> 0, rightCheck |-> 0, quietRoom |-> FALSE]

\* the component as mounted, before any click
Mounted ==
  /\ step = "headphone-check"
  /\ testState = InitialTestState
  /\ isPlaying = FALSE
  /\ canRepeat = TRUE
  /\ emergencyStop = FALSE
  /\ headphoneCheckFailed = FALSE
  /\ savedResult = << >>
  /\ timers = NoTimers
  /\ playing = << >>
  /\ presented = FALSE

\* the wizard is not part of the exploration
WizardIdle == Mounted /\ listener = [ear \in TestedEars |-> "alternates"]

appVars == <<storageVars, wizardVars>>

AppIdle == StorageIdle /\ WizardIdle

\* ------------------------------------------------------------ engine: state
VARIABLES
  audioContext,       \* AudioEngine.audioContext: 0 (null) or an index of contexts
  activeOscillators,  \* AudioEngine.activeOscillators: tone indices, in push order
  activeGainNodes,    \* AudioEngine.activeGainNodes: tone indices (their envelope gains)
  masterGain,         \* AudioEngine.masterGain: 0 (null) or an index of masters
  isInitialized,      \* AudioEngine.isInitialized
  contexts,           \* AudioContext.state of every context created so far
  masters,            \* the master gain nodes created so far: [ctx, gain]
  tones,              \* the tone chains built so far, each with the promise of its playTone call
  awaiting,           \* the initialize / playTone calls suspended at `await resume()`, in call order
  lastOp,             \* history: "stopAll" / "dispose" when the last step was that call, else "other"
  caught              \* history: tones whose node raised an error the last stopAll swallowed

engineVars ==
  <<audioContext, activeOscillators, activeGainNodes, masterGain, isInitialized,
    contexts, masters, tones, awaiting, lastOp, caught>>

\* private fields as the class declares them; nothing called yet
EngineInit ==
  /\ audioContext = 0
  /\ activeOscillators = << >>
  /\ activeGainNodes = << >>
  /\ masterGain = 0
  /\ isInitialized = FALSE
  /\ contexts = << >>
  /\ masters = << >>
  /\ tones = << >>
  /\ awaiting = << >>
  /\ lastOp = "other"
  /\ caught = {}

\* ---------------------------------------------------------- staircase: state
VARIABLES
  config,          \* the StaircaseConfig returned by createStaircase
  state,           \* the current StaircaseState (the last newState)
  shouldContinue,  \* shouldContinue of the last processResponse result
  threshold,       \* threshold of the last processResponse result
  input,           \* history: the state passed to the last processResponse call
  responses,       \* history: the responses passed so far, oldest first
  endedAt,         \* history: index of the first call that returned shouldContinue=false, 0 if none
  given,           \* history: the Partial<StaircaseConfig> passed to createStaircase
  argument         \* the object passed to the last processResponse call, read after the call

staircaseVars ==
  <<config, state, shouldContinue, threshold, input, responses, endedAt, given, argument>>

vars == <<staircaseVars, engineVars, appVars>>

calls == Len(responses)

\* the staircase as createStaircase(overrides) returns it, before any response
Created(overrides) ==
  LET staircase == createStaircase(overrides)
  IN /\ config = staircase.config
     /\ state = staircase.state
     /\ shouldContinue = TRUE
     /\ threshold = NoThreshold
     /\ input = staircase.state
     /\ responses = << >>
     /\ endedAt = 0
     /\ given = overrides
     /\ argument = staircase.state

\* createStaircase(config) with a Partial<StaircaseConfig>: any subset of the fields
Init ==
  /\ EngineInit
  /\ AppIdle
  /\ \E D \in SUBSET Fields : \E overrides \in OverridesOn(D) : Created(overrides)

\* const result = processResponse(state, config, response); the caller keeps result.newState
Call(response) ==
  LET result == processResponse(state, config, response)
  IN /\ state' = result.newState
     /\ shouldContinue' = result.shouldContinue
     /\ threshold' = result.threshold
     /\ input' = state
     /\ argument' = ArgumentAfter(state, result)
     /\ responses' = Append(responses, response)
     /\ endedAt' = IF endedAt = 0 /\ ~result.shouldContinue THEN calls + 1 ELSE endedAt
     /\ UNCHANGED <<config, given>>
     /\ UNCHANGED <<engineVars, appVars>>

ProcessResponse ==
  /\ calls < MaxCalls
  /\ \E response \in Response : Call(response)

Next == ProcessResponse

Spec == Init /\ [][Next]_vars

\* ------------------------------------------ staircase: the default config
\* the longest run the default config allows: maxAttempts calls
DefaultCalls == DEFAULT_CONFIG.maxAttempts

\* createStaircase() as the test wizard calls it: no overrides
InitDefault == EngineInit /\ AppIdle /\ \E overrides \in OverridesOn({}) : Created(overrides)

ProcessResponseDefault ==
  /\ calls < DefaultCalls
  /\ \E response \in Response : Call(response)

NextDefault == ProcessResponseDefault

SpecDefault == InitDefault /\ [][NextDefault]_vars

\* ---------------------------------------------------------- engine: actions
\* the engine object and the Web Audio objects it refers to, as one record
Engine ==
  [audioContext |-> audioContext,
   activeOscillators |-> activeOscillators,
   activeGainNodes |-> activeGainNodes,
   masterGain |-> masterGain,
   isInitialized |-> isInitialized,
   contexts |-> contexts,
   masters |-> masters,
   tones |-> tones]

SetEngine(e) ==
  /\ audioContext' = e.audioContext
  /\ activeOscillators' = e.activeOscillators
  /\ activeGainNodes' = e.activeGainNodes
  /\ masterGain' = e.masterGain
  /\ isInitialized' = e.isInitialized
  /\ contexts' = e.contexts
  /\ masters' = e.masters
  /\ tones' = e.tones

\* what `new AudioContext()` can give: suspended until a user gesture, running, or an exception
Fresh == {"suspended", "running", "throws"}

NoSweep == lastOp' = "other" /\ caught' = {}

\* a call may create a context only while the bound on contexts allows it
MayCreate(fresh) ==
  audioContext # 0 \/ fresh = "throws" \/ Len(contexts) < MaxContexts

\* a call suspended at `await this.audioContext.resume()`
Suspended(kind, e, options) ==
  [kind |-> kind, ctx |-> e.audioContext, options |-> options, stopped |-> FALSE]

\* the calls of one kind that are suspended
Pending(kind) == {i \in 1..Len(awaiting) : awaiting[i].kind = kind}

\* a client calls initialize(): the code up to the first await
Initialize ==
  /\ Cardinality(Pending("initialize")) < MaxInitCalls
  /\ \E fresh \in Fresh :
       /\ MayCreate(fresh)
       /\ LET r == initializeStart(Engine, fresh)
          IN /\ SetEngine(r.engine)
             /\ awaiting' = IF r.outcome = "resume"
                            THEN Append(awaiting, Suspended("initialize", r.engine, << >>))
                            ELSE awaiting
  /\ NoSweep
  /\ UNCHANGED <<staircaseVars, appVars>>

\* playTone(options) up to its first suspension: `await this.initialize()` when
\* the context or the master gain is missing, then the rest of the body
playToneStart(e, options, fresh) ==
  IF e.audioContext = 0 \/ e.masterGain = 0
  THEN LET r == initializeStart(e, fresh)
       IN CASE r.outcome = "resume" -> [engine |-> r.engine, promise |-> "suspended"]
            [] r.outcome = "failed" -> [engine |-> r.engine, promise |-> "rejected"]
            [] r.outcome = "done" -> playToneFinish(r.engine, options, FALSE)
  ELSE playToneFinish(e, options, FALSE)

\* a client calls playTone(options)
PlayTone ==
  /\ Len(tones) + Cardinality(Pending("playTone")) < MaxToneCalls
  /\ \E options \in Requests, fresh \in Fresh :
       /\ MayCreate(fresh)
       /\ LET r == playToneStart(Engine, options, fresh)
          IN /\ SetEngine(r.engine)
             /\ awaiting' = IF r.promise = "suspended"
                            THEN Append(awaiting, Suspended("playTone", r.engine, <<options>>))
                            ELSE awaiting
  /\ NoSweep
  /\ UNCHANGED <<staircaseVars, appVars>>

\* a client calls playTone(options) with any ear, level and duration
PlayToneRequest ==
  /\ Len(tones) + Cardinality(Pending("playTone")) < MaxTonesPlayed
  /\ \E options \in ToneRequests, fresh \in Fresh :
       /\ MayCreate(fresh)
       /\ LET r == playToneStart(Engine, options, fresh)
          IN /\ SetEngine(r.engine)
             /\ awaiting' = IF r.promise = "suspended"
                            THEN Append(awaiting, Suspended("playTone", r.engine, <<options>>))
                            ELSE awaiting
  /\ NoSweep
  /\ UNCHANGED <<staircaseVars, appVars>>

\* the code of one suspended call after its resume() promise resolved: the rest
\* of initialize and, for a playTone call, the rest of playTone
Resumed(e, call) ==
  LET fin == initializeFinish(e)
  IN IF call.kind = "initialize"
     THEN [engine |-> fin.engine,
           promise |-> IF fin.outcome = "done" THEN "resolved" ELSE "rejected"]
     ELSE IF fin.outcome = "failed"
     THEN [engine |-> fin.engine, promise |-> "rejected"]
     ELSE playToneFinish(fin.engine, call.options[1], call.stopped)

RECURSIVE ResumeAll(_, _, _)
\* the pending resume() promises of context c are resolved in call order and
\* the continuations run one after the other before any other task
ResumeAll(e, pending, c) ==
  IF pending = << >>
  THEN [engine |-> e, awaiting |-> << >>]
  ELSE IF Head(pending).ctx = c
  THEN ResumeAll(Resumed(e, Head(pending)).engine, Tail(pending), c)
  ELSE LET rest == ResumeAll(e, Tail(pending), c)
       IN [rest EXCEPT !.awaiting = <<Head(pending)>> \o @]

\* the browser starts a suspended context on which resume() was called
ContextResumes ==
  /\ \E c \in 1..Len(contexts) :
       /\ contexts[c] = "suspended"
       /\ \E i \in 1..Len(awaiting) : awaiting[i].ctx = c
       /\ LET r == ResumeAll([Engine EXCEPT !.contexts[c] = "running"], awaiting, c)
          IN SetEngine(r.engine) /\ awaiting' = r.awaiting
  /\ NoSweep
  /\ UNCHANGED <<staircaseVars, appVars>>

\* the calls that are not waiting for context c
NotOn(pending, c) == SelectSeq(pending, LAMBDA call : call.ctx # c)

\* the browser fails to start context c (no output device can be acquired):
\* every pending resume() promise of c is rejected, c stays suspended, and the
\* calls awaiting it throw to their callers without running any further
ResumeFails(c) ==
  /\ contexts[c] = "suspended"
  /\ \E i \in 1..Len(awaiting) : awaiting[i].ctx = c
  /\ awaiting' = NotOn(awaiting, c)
  /\ SetEngine(Engine)
  /\ NoSweep
  /\ UNCHANGED <<staircaseVars, appVars>>

ResumeRejected == \E c \in 1..Len(contexts) : ResumeFails(c)

\* the task that resolves the resume() promises of context c was already
\* queued when dispose closed c: the continuations of the calls awaiting c run
\* after dispose, in call order, on whatever the engine holds by then
LateSettle ==
  /\ \E c \in 1..Len(contexts) :
       /\ contexts[c] = "closed"
       /\ \E i \in 1..Len(awaiting) : awaiting[i].ctx = c
       /\ LET r == ResumeAll(Engine, awaiting, c)
          IN SetEngine(r.engine) /\ awaiting' = r.awaiting
  /\ NoSweep
  /\ UNCHANGED <<staircaseVars, appVars>>

\* the tones whose oscillator is running on a running context
Progressing ==
  {t \in 1..Len(tones) : tones[t].osc = "playing" /\ contexts[tones[t].ctx] = "running"}

\* the next instant of tone t the model stops at: its scheduled stop
NextInstant(tone) == tone.stopAt

\* context time passes up to the next such instant of a running tone; an
\* oscillator that reaches its stop time has finished
AdvanceTime ==
  /\ Progressing # {}
  /\ LET dt == CHOOSE d \in {NextInstant(tones[t]) - tones[t].elapsed : t \in Progressing} :
                 \A t \in Progressing : d <= NextInstant(tones[t]) - tones[t].elapsed
     IN tones' = [t \in 1..Len(tones) |->
                    IF t \in Progressing
                    THEN [tones[t] EXCEPT
                            !.elapsed = @ + dt,
                            !.osc = IF tones[t].elapsed + dt >= tones[t].stopAt
                                    THEN "finished" ELSE @]
                    ELSE tones[t]]
  /\ NoSweep
  /\ UNCHANGED <<audioContext, activeOscillators, activeGainNodes, masterGain,
                 isInitialized, contexts, masters, awaiting>>
  /\ UNCHANGED <<staircaseVars, appVars>>

\* a chain whose ended event has been handled: nothing refers to its nodes any
\* more, what is left of the call is its resolved promise
Collected ==
  [ctx |-> 0, master |-> 0, frequency |-> 0, pan |-> 0, linearGain |-> 0,
   attackEnd |-> 0, sustainEnd |-> 0, releaseEnd |-> 0, envelope |-> << >>,
   stopAt |-> 0, elapsed |-> 0,
   osc |-> "finished", zeroed |-> FALSE, forced |-> FALSE, handled |-> TRUE,
   promise |-> "resolved", afterStop |-> FALSE]

\* mutant: the ended handler empties both arrays
onended_ClearsAll(e, t) ==
  [e EXCEPT !.activeOscillators = << >>,
            !.activeGainNodes = << >>,
            !.tones[t] = Collected]

\* oscillator.onended of tone t: both arrays are filtered and the promise resolved
onended(e, t) ==
  [e EXCEPT !.activeOscillators = Remove(@, t),
            !.activeGainNodes = Remove(@, t),
            !.tones[t] = Collected]

\* the ended event of the oscillator of tone t, which reached its stop time or
\* was stopped, is delivered
EndedOf(t) ==
  /\ tones[t].osc \in {"finished", "stopped"}
  /\ ~tones[t].handled
  /\ contexts[tones[t].ctx] # "suspended"
  /\ SetEngine(onended(Engine, t))
  /\ NoSweep
  /\ UNCHANGED awaiting
  /\ UNCHANGED <<staircaseVars, appVars>>

Ended == \E t \in 1..Len(tones) : EndedOf(t)

\* tracked oscillators that have already finished: stop() on them raises in
\* some browsers and is a no-op in others
MayRaise == {t \in 1..Len(tones) : InSeq(t, activeOscillators) /\ tones[t].osc = "finished"}

\* history: a stopAll has run since these calls were made
MarkCalls(pending) ==
  [i \in 1..Len(pending) |->
     IF pending[i].kind = "playTone" THEN [pending[i] EXCEPT !.stopped = TRUE] ELSE pending[i]]

\* a client calls stopAll()
StopAll ==
  /\ \E faults \in SUBSET MayRaise :
       LET r == stopAll(Engine, faults)
       IN /\ SetEngine(r.engine)
          /\ caught' = r.caught
  /\ awaiting' = MarkCalls(awaiting)
  /\ lastOp' = "stopAll"
  /\ UNCHANGED <<staircaseVars, appVars>>

\* the calls still of interest after close(): the resume() promises of the
\* closed context are either settled later by a task queued before close()
\* (late), or rejected or left pending, and those calls do nothing more
AfterClose(pending, c, late) == IF late \/ c = 0 THEN pending ELSE NotOn(pending, c)

\* a client calls dispose()
Dispose ==
  /\ \E faults \in SUBSET MayRaise, late \in BOOLEAN :
       LET r == dispose(Engine, faults)
           closed == IF r.thrown THEN 0 ELSE audioContext
       IN /\ SetEngine(r.engine)
          /\ caught' = r.caught
          /\ awaiting' = MarkCalls(AfterClose(awaiting, closed, late))
  /\ lastOp' = "dispose"
  /\ UNCHANGED <<staircaseVars, appVars>>

InitEngine == EngineInit /\ AppIdle /\ \E overrides \in OverridesOn({}) : Created(overrides)

NextEngine ==
  \/ Initialize
  \/ PlayTone
  \/ ContextResumes
  \/ ResumeRejected
  \/ LateSettle
  \/ AdvanceTime
  \/ Ended
  \/ StopAll
  \/ Dispose

SpecEngine == InitEngine /\ [][NextEngine]_vars

\* the engine driven by playTone calls over all tone parameters, each tone
\* left to play to its end
NextTone ==
  \/ PlayToneRequest
  \/ ContextResumes
  \/ AdvanceTime
  \/ Ended

SpecTone == InitEngine /\ [][NextTone]_vars

\* the ended event of a finished or stopped oscillator of a running context
EndedRunning ==
  \E t \in 1..Len(tones) :
     ~tones[t].handled /\ contexts[tones[t].ctx] = "running" /\ EndedOf(t)

\* what the platform guarantees: the clock of a running context advances and
\* the ended event of an oscillator of a running context is delivered.  A
\* suspended context need not ever start, and a closed context renders nothing
\* more, so the ended event of its oscillators need not be delivered.
SpecEngineLive ==
  /\ InitEngine
  /\ [][NextEngine]_vars
  /\ WF_vars(AdvanceTime)
  /\ WF_vars(EndedRunning)

\* --------------------------------------------------------- storage: actions
\* the items a browser may hold before the first call
InitialItems == {NoItem, <<CorruptText>>, <<OtherVersionText>>}

InitStorage ==
  /\ EngineInit
  /\ \E overrides \in OverridesOn({}) : Created(overrides)
  /\ storage \in InitialItems
  /\ saved = << >>
  /\ WizardIdle

\* a client calls saveTestResult(result)
SaveTestResult ==
  /\ Len(saved) < MaxSaves
  /\ \E hasWindow \in BOOLEAN, quotaExceeded \in BOOLEAN :
       LET result == SampleResult(Len(saved) + 1)
       IN /\ storage' = saveTestResult(storage, result, hasWindow, quotaExceeded)
          /\ saved' = Append(saved, [result |-> result,
                                     written |-> hasWindow /\ ~quotaExceeded])
  /\ UNCHANGED <<staircaseVars, engineVars, wizardVars>>

NextStorage == SaveTestResult

SpecStorage == InitStorage /\ [][NextStorage]_vars

\* ---------------------------------------------------------- wizard: actions
\* the state the effects read and write
World ==
  [step |-> step, testState |-> testState, savedResult |-> savedResult,
   storage |-> storage, saved |-> saved]

\* the dependencies of the auto-play effect; playTone changes with emergencyStop
AutoPlayDeps(page, ts, playingFlag, stopFlag) ==
  <<page, ts.staircaseState, ts.currentFrequencyIndex, playingFlag, ts.testComplete, stopFlag>>

\* the condition of the effect "Auto-play next tone after response"
AutoPlayWanted(page, ts, playingFlag) ==
  /\ page \in TestSteps
  /\ ts.staircaseState # NoStaircase
  /\ ~playingFlag
  /\ ~ts.testComplete

\* the state after a handler: w, p, r, e, f are the values the handler set,
\* base its timers, inFlight the playTone calls in flight; the effects run, and
\* the auto-play effect clears its timer and sets a new one when one of its
\* dependencies changed
Commit(w, p, r, e, f, base, inFlight, shown, quotaExceeded) ==
  LET settled == Settle(w, quotaExceeded)
      changed == AutoPlayDeps(settled.step, settled.testState, p, e)
                   # AutoPlayDeps(step, testState, isPlaying, emergencyStop)
  IN /\ step' = settled.step
     /\ testState' = settled.testState
     /\ savedResult' = settled.savedResult
     /\ storage' = settled.storage
     /\ saved' = settled.saved
     /\ isPlaying' = p
     /\ canRepeat' = r
     /\ emergencyStop' = e
     /\ headphoneCheckFailed' = f
     /\ timers' = [base EXCEPT !.autoPlay =
                     IF changed THEN AutoPlayWanted(settled.step, settled.testState, p) ELSE @]
     /\ playing' = inFlight
     /\ presented' = shown
     /\ UNCHANGED <<listener, staircaseVars, engineVars>>

\* what audioEngine.playTone does with a call: play the tone to its end, or reject
Outcomes == {"plays", "fails"}

\* no call in flight is about to settle.  The promise of a failed call is
\* rejected in a microtask and the ended event of a stopped oscillator comes
\* within one render quantum: both are handled before the next click and
\* before the next timer, which are hundreds of milliseconds away.
NoneSettling == \A i \in 1..Len(playing) : playing[i].outcome = "plays"

\* mutant: playTone does nothing while a tone is playing
WizardPlayTone_Guarded(stopFlag, frequency, ear, level, outcome) ==
  IF stopFlag \/ playing # << >>
  THEN [isPlaying |-> isPlaying, canRepeat |-> canRepeat, playing |-> playing]
  ELSE [isPlaying |-> TRUE,
        canRepeat |-> FALSE,
        playing |-> Append(playing, [frequency |-> frequency, ear |-> ear,
                                     level |-> level, outcome |-> outcome,
                                     responses |-> 0])]

\* playTone(frequency, ear, level) of the render in which emergencyStop was
\* stopFlag, up to its await
WizardPlayTone(stopFlag, frequency, ear, level, outcome) ==
  IF stopFlag
  THEN [isPlaying |-> isPlaying, canRepeat |-> canRepeat, playing |-> playing]
  ELSE [isPlaying |-> TRUE,
        canRepeat |-> FALSE,
        playing |-> Append(playing, [frequency |-> frequency, ear |-> ear,
                                     level |-> level, outcome |-> outcome,
                                     responses |-> 0])]

\* a handler that calls playTone and sets nothing else
Plays(stopFlag, frequency, ear, level, base) ==
  /\ stopFlag \/ Len(playing) < MaxInFlight
  /\ \E outcome \in Outcomes :
       LET call == WizardPlayTone(stopFlag, frequency, ear, level, outcome)
       IN Commit(World, call.isPlaying, call.canRepeat, emergencyStop,
                 headphoneCheckFailed, base, call.playing, presented, FALSE)

\* the headphone-check block of an ear is rendered
BlockShown(ear) ==
  /\ step = "headphone-check"
  /\ IF ear = "left"
     THEN ~testState.headphoneCheckLeft
     ELSE testState.headphoneCheckLeft /\ ~testState.headphoneCheckRight

\* click on "Play Tone (Left)" / "Play Tone (Right)": handleHeadphoneCheck(ear)
ClickPlayTone ==
  /\ NoneSettling
  /\ \E ear \in TestedEars :
        /\ BlockShown(ear)
        /\ ~isPlaying
        /\ Plays(emergencyStop, 1000, ear, -20, timers)

\* handleHeadphoneResponse(ear, correct): the testState, the failure flag and
\* the timers after the call.  The timer of the left ear calls the
\* handleHeadphoneCheck of this render, which returns at once when this
\* render's isPlaying is true: only the timers that will play are counted.
handleHeadphoneResponse(ear, correct) ==
  IF ~correct
  THEN [testState |-> testState, failed |-> TRUE, timers |-> timers]
  ELSE IF ear = "left"
  THEN [testState |-> [testState EXCEPT !.headphoneCheckLeft = TRUE],
        failed |-> FALSE,
        timers |-> IF isPlaying THEN timers ELSE [timers EXCEPT !.rightCheck = @ + 1]]
  ELSE [testState |-> [testState EXCEPT !.headphoneCheckRight = TRUE],
        failed |-> FALSE,
        timers |-> [timers EXCEPT !.quietRoom = TRUE]]

\* click on "I hear it in ..." / "Not in ..."
ClickHeadphoneResponse ==
  /\ NoneSettling
  /\ \E ear \in TestedEars, correct \in BOOLEAN :
        /\ BlockShown(ear)
        /\ LET r == handleHeadphoneResponse(ear, correct)
           IN /\ r.timers.rightCheck <= MaxRightChecks
              /\ Commit([World EXCEPT !.testState = r.testState], isPlaying, canRepeat,
                        emergencyStop, r.failed, r.timers, playing, presented, FALSE)

\* click on "Try Again"
ClickTryAgain ==
  /\ NoneSettling
  /\ headphoneCheckFailed
  /\ \E ear \in TestedEars : BlockShown(ear)
  /\ Commit([World EXCEPT !.testState = [@ EXCEPT !.headphoneCheckLeft = FALSE,
                                                  !.headphoneCheckRight = FALSE]],
            isPlaying, canRepeat, emergencyStop, FALSE, timers, playing, presented, FALSE)

\* the 500 ms timer of handleHeadphoneResponse("left", true) fires: the
\* handleHeadphoneCheck("right") and the playTone of the render of the click,
\* in which isPlaying and emergencyStop were false
RightCheckTimer ==
  /\ NoneSettling
  /\ timers.rightCheck > 0
  /\ Plays(FALSE, 1000, "right", -20, [timers EXCEPT !.rightCheck = @ - 1])

\* the 1000 ms timer of handleHeadphoneResponse("right", true) fires; the
\* 500 ms timers of the left ear were all set before it and have fired
QuietRoomTimer ==
  /\ NoneSettling
  /\ timers.quietRoom
  /\ timers.rightCheck = 0
  /\ Commit([World EXCEPT !.step = "quiet-room"], isPlaying, canRepeat, emergencyStop,
            headphoneCheckFailed, [timers EXCEPT !.quietRoom = FALSE], playing,
            presented, FALSE)

\* click on "Yes, I'm in a quiet room": handleQuietRoomConfirm
ClickQuietRoom ==
  /\ NoneSettling
  /\ step = "quiet-room"
  /\ Commit([World EXCEPT !.testState = [@ EXCEPT !.quietRoomConfirmed = TRUE],
                          !.step = "test-left"],
            isPlaying, canRepeat, emergencyStop, headphoneCheckFailed, timers, playing,
            presented, FALSE)

\* getCurrentLevel(testState.staircaseState?.state || createStaircase().state)
LevelShown ==
  IF testState.staircaseState = NoStaircase
  THEN getCurrentLevel(createStaircase(NoOverrides).state)
  ELSE getCurrentLevel(testState.staircaseState[1].state)

\* click on "Repeat Tone"
ClickRepeat ==
  /\ NoneSettling
  /\ step \in TestSteps
  /\ ~isPlaying /\ canRepeat /\ ~emergencyStop
  /\ Plays(emergencyStop, CurrentFreq(testState), EarOf(step), LevelShown, timers)

\* the 800 ms timer of the auto-play effect fires
AutoPlayTimer ==
  /\ NoneSettling
  /\ timers.autoPlay
  /\ Plays(emergencyStop, CurrentFreq(testState), EarOf(step), LevelShown,
           [timers EXCEPT !.autoPlay = FALSE])

\* click on "Heard" / "Didn't hear": handleTestResponse(response), with the
\* response of the listener at this ear; the calls in flight count the click
ClickResponse ==
  /\ NoneSettling
  /\ step \in TestSteps
  /\ ~isPlaying
  /\ testState.staircaseState # NoStaircase
  /\ \A j \in 1..Len(playing) : playing[j].responses < MaxResponsesPerTone
  /\ \E quotaExceeded \in BOOLEAN :
       LET response == Respond(listener[EarOf(step)], testState.staircaseState[1].state)
       IN Commit([World EXCEPT !.testState = handleTestResponse(step, testState, response)],
                 isPlaying, canRepeat, emergencyStop, headphoneCheckFailed, timers,
                 [j \in 1..Len(playing) |-> [playing[j] EXCEPT !.responses = @ + 1]],
                 FALSE, quotaExceeded)

\* call i is a presentation of the tone of the current run at the current level
Presents(call) ==
  /\ step \in TestSteps
  /\ testState.staircaseState # NoStaircase
  /\ call.outcome = "plays"
  /\ call.frequency = CurrentFreq(testState)
  /\ call.ear = EarOf(step)
  /\ call.level = getCurrentLevel(testState.staircaseState[1].state)

\* tones have one length: a tone plays to its end only after the tones started before it
MaySettle(i) ==
  playing[i].outcome = "plays" => \A j \in 1..(i - 1) : playing[j].outcome # "plays"

\* the promise of the audioEngine.playTone call i settles (the tone has
\* ended, or was stopped, or the call failed): the catch and the finally of playTone
ToneSettles ==
  /\ timers.cooldown < MaxCooldowns
  /\ \E i \in 1..Len(playing) :
       /\ MaySettle(i)
       /\ Commit(World, FALSE, canRepeat, emergencyStop, headphoneCheckFailed,
                 [timers EXCEPT !.cooldown = @ + 1],
                 [j \in 1..(Len(playing) - 1) |-> IF j < i THEN playing[j] ELSE playing[j + 1]],
                 presented \/ Presents(playing[i]), FALSE)

\* the 500 ms timer of playTone's finally fires
CooldownTimer ==
  /\ NoneSettling
  /\ timers.cooldown > 0
  /\ Commit(World, isPlaying, TRUE, emergencyStop, headphoneCheckFailed,
            [timers EXCEPT !.cooldown = @ - 1], playing, presented, FALSE)

\* click on "Stop All Sound": handleEmergencyStop; audioEngine.stopAll() stops
\* the tones that are playing
ClickEmergencyStop ==
  /\ NoneSettling
  /\ step \in TestSteps
  /\ timers.reset < MaxResets
  /\ Commit(World, FALSE, canRepeat, TRUE, headphoneCheckFailed,
            [timers EXCEPT !.reset = @ + 1],
            [j \in 1..Len(playing) |->
               IF playing[j].outcome = "plays"
               THEN [playing[j] EXCEPT !.outcome = "stopped"] ELSE playing[j]],
            presented, FALSE)

\* the 1000 ms timer of handleEmergencyStop fires
ResetTimer ==
  /\ NoneSettling
  /\ timers.reset > 0
  /\ Commit(World, isPlaying, canRepeat, FALSE, headphoneCheckFailed,
            [timers EXCEPT !.reset = @ - 1], playing, presented, FALSE)

InitWizard ==
  /\ EngineInit
  /\ \E overrides \in OverridesOn({}) : Created(overrides)
  /\ StorageIdle
  /\ Mounted
  /\ listener \in [TestedEars -> Listeners]

NextWizard ==
  \/ ClickPlayTone
  \/ ClickHeadphoneResponse
  \/ ClickTryAgain
  \/ RightCheckTimer
  \/ QuietRoomTimer
  \/ ClickQuietRoom
  \/ ClickRepeat
  \/ AutoPlayTimer
  \/ ClickResponse
  \/ ToneSettles
  \/ CooldownTimer
  \/ ClickEmergencyStop
  \/ ResetTimer

SpecWizard == InitWizard /\ [][NextWizard]_vars

\* ------------------------------------------------- staircase: vocabulary
\* the response passed to the last processResponse call
lastCall == responses[calls]

\* the last call lies in the run: no earlier call returned shouldContinue=false
InRun == endedAt = 0 \/ endedAt = calls

\* the last call was ended by the maxAttempts check
EndedByMaxAttempts == input.attempts + 1 >= config.maxAttempts

AllSame(rs) == \A i, j \in 1..Len(rs) : rs[i] = rs[j]

Alternating(rs) == \A i \in 2..Len(rs) : rs[i] # rs[i - 1]

\* the level the step rules give for the last call, from the state passed in
SteppedLevel ==
  IF lastCall = "heard"
  THEN (IF input.currentLevel - config.stepSizeDown >= config.minLevel
        THEN input.currentLevel - config.stepSizeDown ELSE config.minLevel)
  ELSE (IF input.currentLevel + config.stepSizeUp <= config.maxLevel
        THEN input.currentLevel + config.stepSizeUp ELSE config.maxLevel)

\* ------------------------------------------------------------------ claims
\* C1: for a valid config (minLevel <= initialLevel <= maxLevel, steps > 0)
\* the currentLevel of every state returned by processResponse lies within
\* [minLevel, maxLevel], whatever the responses were.
C1_LevelWithinBounds ==
  (calls > 0 /\ ValidConfig(config)) =>
    (config.minLevel <= state.currentLevel /\ state.currentLevel <= config.maxLevel)

\* a heard response whose step would have left the range was clamped at minLevel
C1_Witness ==
  /\ calls > 0 /\ ValidConfig(config) /\ ~EndedByMaxAttempts
  /\ lastCall = "heard"
  /\ input.currentLevel - config.stepSizeDown < config.minLevel
  /\ state.currentLevel = config.minLevel

\* C2: for a valid config with maxAttempts >= 1, some processResponse call no
\* later than the maxAttempts-th one returns shouldContinue=false.
C2_EndsWithinMaxAttempts ==
  (ValidConfig(config) /\ config.maxAttempts >= 1 /\ calls >= config.maxAttempts) =>
    (endedAt >= 1 /\ endedAt <= config.maxAttempts)

\* a run that the reversal rule did not end, ended by its maxAttempts-th call
C2_Witness ==
  /\ ValidConfig(config) /\ config.maxAttempts >= 2
  /\ calls = config.maxAttempts /\ endedAt = calls
  /\ state.reversals < config.maxReversals

\* C3: every processResponse call returns attempts = input attempts + 1
\* (terminating calls included), and while no earlier call has ended the run
\* the call that brings attempts to maxAttempts returns shouldContinue=false.
C3_AttemptsStepByOne ==
  [][ /\ state'.attempts = state.attempts + 1
      /\ (endedAt = 0 /\ state'.attempts = config.maxAttempts) => ~shouldContinue'
    ]_vars

\* a terminating call, not the first of its run, that counted its attempt
C3_Witness ==
  /\ calls >= 2 /\ endedAt = calls
  /\ state.attempts = config.maxAttempts
  /\ state.attempts = input.attempts + 1
  /\ ~shouldContinue

\* C4: when the incremented attempts is >= maxAttempts the call ends before
\* any level update: shouldContinue=false, threshold = the input currentLevel,
\* and only attempts, lastResponse and threshold differ from the input state.
C4_MaxAttemptsBeforeUpdate ==
  (calls > 0 /\ EndedByMaxAttempts) =>
    /\ ~shouldContinue
    /\ threshold = <<input.currentLevel>>
    /\ state = [input EXCEPT !.attempts = @ + 1,
                             !.lastResponse = lastCall,
                             !.threshold = <<input.currentLevel>>]

\* the ending response would have moved the level and flipped the direction
C4_Witness ==
  /\ calls > 0 /\ EndedByMaxAttempts
  /\ lastCall = "notHeard" /\ input.direction = "down"
  /\ input.lastResponse # NoResponse
  /\ input.currentLevel < config.maxLevel
  /\ state.currentLevel = input.currentLevel

\* C5: on a call not ended by the maxAttempts check, heard sets direction=down
\* and currentLevel = max(minLevel, old - stepSizeDown); notHeard sets
\* direction=up and currentLevel = min(maxLevel, old + stepSizeUp).
C5_StepRules ==
  (calls > 0 /\ ~EndedByMaxAttempts) =>
    /\ state.direction = (IF lastCall = "heard" THEN "down" ELSE "up")
    /\ state.currentLevel = SteppedLevel

\* a notHeard response stepped up by stepSizeUp without reaching maxLevel
C5_Witness ==
  /\ calls > 0 /\ ~EndedByMaxAttempts
  /\ lastCall = "notHeard" /\ state.direction = "up"
  /\ config.stepSizeUp # config.stepSizeDown
  /\ state.currentLevel = input.currentLevel + config.stepSizeUp
  /\ state.currentLevel < config.maxLevel

\* C6: on a call not ended by the maxAttempts check, reversals grows by
\* exactly 1 iff the new direction differs from the direction held before the
\* call and the input state has a prior response; otherwise it is unchanged.
C6_ReversalRule ==
  (calls > 0 /\ ~EndedByMaxAttempts) =>
    state.reversals =
      input.reversals +
        (IF state.direction # input.direction /\ input.lastResponse # NoResponse
         THEN 1 ELSE 0)

\* a direction change after a prior response was counted
C6_Witness ==
  /\ calls > 1 /\ ~EndedByMaxAttempts
  /\ state.direction # input.direction
  /\ state.reversals = input.reversals + 1

\* C7: while every response so far is the same, reversals is 0 after every
\* call, also when the first notHeard flips the initial direction down -> up.
C7_IdenticalResponsesNoReversal ==
  AllSame(responses) => state.reversals = 0

\* three notHeard in a row: the direction flipped to up and nothing was counted
C7_Witness ==
  /\ calls >= 3 /\ AllSame(responses) /\ lastCall = "notHeard"
  /\ state.direction = "up" /\ state.reversals = 0

\* C8 as stated: in a strictly alternating run reversals grows by exactly 1 on
\* every call after the first and not on the first.
C8_Original ==
  (calls >= 1 /\ InRun /\ ValidConfig(config) /\ config.maxAttempts >= 1
     /\ Alternating(responses)) =>
    state.reversals = input.reversals + (IF calls >= 2 THEN 1 ELSE 0)

\* C8 amended: in a strictly alternating sequence reversals grows by exactly 1
\* on every call after the first that is not ended by the maxAttempts check,
\* and is unchanged on the first call and on a call ended by that check.
C8_AlternatingReversals ==
  (calls >= 1 /\ Alternating(responses)) =>
    state.reversals =
      input.reversals + (IF calls >= 2 /\ ~EndedByMaxAttempts THEN 1 ELSE 0)

\* three alternating responses counted two reversals
C8_Witness ==
  /\ calls >= 3 /\ Alternating(responses) /\ ~EndedByMaxAttempts
  /\ state.reversals = calls - 1

\* C9: on a call not ended by the maxAttempts check, reversals >= maxReversals
\* after the update returns shouldContinue=false with threshold = the
\* just-updated currentLevel; otherwise the call returns shouldContinue=true.
C9_MaxReversalsEnds ==
  (calls > 0 /\ ~EndedByMaxAttempts) =>
    IF state.reversals >= config.maxReversals
    THEN ~shouldContinue /\ threshold = <<SteppedLevel>> /\ threshold = <<state.currentLevel>>
    ELSE shouldContinue

\* the reversal that ended the run moved the level, and the moved level is reported
C9_Witness ==
  /\ calls > 0 /\ ~EndedByMaxAttempts /\ ~shouldContinue
  /\ config.maxReversals >= 1
  /\ state.reversals = config.maxReversals
  /\ state.currentLevel # input.currentLevel
  /\ threshold = <<state.currentLevel>>

\* C10: the state's and the returned threshold are null on every call that
\* returns shouldContinue=true and non-null, and equal, on the call that
\* returns shouldContinue=false; within a run the state's threshold is
\* written once, by the call that ends the run.
C10_ThresholdOnceAtEnd ==
  /\ [](IF shouldContinue
        THEN state.threshold = NoThreshold /\ threshold = NoThreshold
        ELSE state.threshold # NoThreshold /\ threshold = state.threshold)
  /\ [][endedAt = 0 =>
          /\ state.threshold = NoThreshold
          /\ (state'.threshold # state.threshold) <=> ~shouldContinue'
       ]_vars

\* a run of several continuing calls whose last call set the threshold
C10_Witness ==
  /\ calls >= 3 /\ endedAt = calls
  /\ input.threshold = NoThreshold
  /\ state.threshold # NoThreshold /\ threshold = state.threshold

C12_InitialState ==
  /\ \A f \in Fields :
       config[f] = (IF f \in DOMAIN given THEN given[f] ELSE DEFAULT_CONFIG[f])
  /\ calls = 0 =>
       /\ state.currentLevel =
            (IF "initialLevel" \in DOMAIN given THEN given.initialLevel ELSE -20)
       /\ state.direction = "down"
       /\ state.reversals = 0
       /\ state.attempts = 0
       /\ state.lastResponse = NoResponse
       /\ state.threshold = NoThreshold

\* a staircase created with an initialLevel override and the default maxAttempts
C12_Witness ==
  /\ calls = 0
  /\ "initialLevel" \in DOMAIN given /\ given.initialLevel # -20
  /\ "maxAttempts" \notin DOMAIN given /\ config.maxAttempts = 20
  /\ state.currentLevel = given.initialLevel

\* the scenario of C13 and its trajectory worked out by hand from the step rules
Scenario13 ==
  <<"heard", "heard", "notHeard", "heard", "notHeard", "heard", "notHeard">>

Levels13 == <<-26, -32, -29, -35, -32, -38>>

Reversals13 == <<0, 0, 1, 2, 3, 4>>

\* C13: with the default config the responses heard, heard, notHeard, heard,
\* notHeard, heard, (notHeard) give the levels -26, -32, -29, -35, -32, -38 with
\* reversals 0, 0, 1, 2, 3, 4; shouldContinue is true before the 4th reversal
\* and false on the call where reversals reaches 4.
C13_DefaultScenario ==
  (calls \in 1..6 /\ responses = SubSeq(Scenario13, 1, calls)) =>
    /\ state.currentLevel = Levels13[calls]
    /\ state.reversals = Reversals13[calls]
    /\ shouldContinue = (state.reversals < 4)
    /\ (calls = 6 => ~shouldContinue /\ threshold = <<-38>>)

\* the sixth response of the scenario brought the fourth reversal and ended the run
C13_Witness ==
  /\ calls = 6 /\ responses = SubSeq(Scenario13, 1, 6)
  /\ state.reversals = 4 /\ state.currentLevel = -38
  /\ endedAt = 6

\* C14: with the default config 20 consecutive notHeard keep shouldContinue
\* true for 19 calls and end on the 20th through the maxAttempts check with
\* threshold = maxLevel = 0 dB; currentLevel never exceeds 0 dB.
C14_TwentyNotHeard ==
  (calls >= 1 /\ AllSame(responses) /\ lastCall = "notHeard") =>
    /\ state.currentLevel <= 0
    /\ (calls <= 19 => shouldContinue)
    /\ (calls = 20 =>
          /\ ~shouldContinue
          /\ EndedByMaxAttempts
          /\ state.reversals < config.maxReversals
          /\ threshold = <<0>>)

\* the twentieth notHeard ended the run at the clamped level
C14_Witness ==
  /\ calls = 20 /\ AllSame(responses) /\ lastCall = "notHeard"
  /\ endedAt = 20
  /\ threshold = <<0>> /\ state.currentLevel = config.maxLevel

\* C15 as stated: in every state reached from createStaircase through
\* processResponse calls, 0 <= attempts <= maxAttempts and reversals >= 0.
C15_Original ==
  (ValidConfig(config) /\ config.maxAttempts >= 1) =>
    (0 <= state.attempts /\ state.attempts <= config.maxAttempts /\ state.reversals >= 0)

\* C15 amended: attempts >= 0 and reversals >= 0 in every reachable state, and
\* attempts <= maxAttempts when maxAttempts >= 1 and no call was made after the
\* call that returned shouldContinue=false.
C15_CountsWithinRun ==
  /\ state.attempts >= 0
  /\ state.reversals >= 0
  /\ (config.maxAttempts >= 1 /\ InRun) => state.attempts <= config.maxAttempts

\* a run that used up its attempts after counting a reversal
C15_Witness ==
  /\ InRun /\ calls >= 2
  /\ config.maxAttempts >= 2 /\ state.attempts = config.maxAttempts
  /\ state.reversals >= 1

\* ------------------------------------------------------ engine: vocabulary
ToneIds == 1..Len(tones)

\* tone t is referenced by both arrays of the engine
Tracked(t) == InSeq(t, activeOscillators) /\ InSeq(t, activeGainNodes)

\* tone t is audible: its oscillator runs on a running context, gain not zeroed
Sounding(t) ==
  /\ tones[t].osc = "playing"
  /\ ~tones[t].zeroed
  /\ contexts[tones[t].ctx] = "running"

\* the tones the last stopAll silenced while their oscillator was playing
Silenced == {t \in ToneIds : tones[t].forced /\ tones[t].zeroed}

\* C16: stopAll called with zero active tones does not throw and leaves the
\* engine state (both arrays, audioContext, masterGain, isInitialized)
\* unchanged; called with N >= 1 active tones it leaves activeOscillators and
\* activeGainNodes both empty.  Stated for a stopAll call in every reachable
\* state, whichever stop() calls raise, and for the state a stopAll call left.
C16_StopAllEmpties ==
  /\ \A faults \in SUBSET MayRaise :
       LET r == stopAll(Engine, faults)
       IN /\ ~r.thrown
          /\ r.engine.activeOscillators = << >>
          /\ r.engine.activeGainNodes = << >>
          /\ (activeOscillators = << >> /\ activeGainNodes = << >>) => r.engine = Engine
  /\ lastOp = "stopAll" => (activeOscillators = << >> /\ activeGainNodes = << >>)

\* stopAll has just returned after silencing a playing tone
C16_Witness ==
  /\ lastOp = "stopAll"
  /\ Silenced # {}
  /\ activeOscillators = << >> /\ activeGainNodes = << >>

\* C17: stopAll and dispose never fail observably: when stopping an
\* oscillator or zeroing a gain raises for one tracked node (a node that has
\* already finished, or no audio context), the call still returns normally,
\* still calls stop() on every tracked oscillator in order, leaves no tracked
\* oscillator playing, zeroes every tracked gain it can reach, and clears both
\* arrays.  Stated for a call in every reachable state and every choice of
\* raising nodes, and for the state such a call left.
C17_StopNeverFails ==
  /\ \A faults \in SUBSET MayRaise :
       \A r \in {stopAll(Engine, faults), dispose(Engine, faults)} :
          /\ ~r.thrown
          /\ faults \subseteq r.caught
          /\ r.swept = activeOscillators
          /\ \A i \in 1..Len(activeOscillators) :
               r.engine.tones[activeOscillators[i]].osc # "playing"
          /\ \A i \in 1..Len(activeGainNodes) :
               audioContext # 0 => r.engine.tones[activeGainNodes[i]].zeroed
          /\ r.engine.activeOscillators = << >>
          /\ r.engine.activeGainNodes = << >>
  /\ lastOp \in {"stopAll", "dispose"} =>
       /\ activeOscillators = << >> /\ activeGainNodes = << >>
       /\ \A t \in caught : tones[t].zeroed

\* stop() raised for a finished oscillator and was swallowed, and the call went
\* on to silence another tone that was still playing
C17_Witness ==
  /\ lastOp \in {"stopAll", "dispose"}
  /\ \E t \in caught : tones[t].osc = "finished"
  /\ Silenced \ caught # {}
  /\ activeOscillators = << >> /\ activeGainNodes = << >>

\* C18: in every reachable engine state every tone that has been started and
\* has neither ended naturally nor been stopped is tracked in both arrays, so a
\* stopAll call (directly or through dispose) stops the oscillator and zeroes
\* the envelope gain of every sounding tone, never only a subset; and an
\* oscillator that ended before its scheduled stop was stopped by stopAll.
C18_EveryPlayingToneTracked ==
  /\ \A t \in ToneIds : tones[t].osc = "playing" => Tracked(t)
  /\ \A faults \in SUBSET MayRaise :
       \A r \in {stopAll(Engine, faults), dispose(Engine, faults)} :
          \A t \in ToneIds :
             tones[t].osc = "playing" =>
               r.engine.tones[t].osc = "stopped" /\ r.engine.tones[t].zeroed
  /\ lastOp \in {"stopAll", "dispose"} => \A t \in ToneIds : ~Sounding(t)
  /\ \A t \in ToneIds :
       (tones[t].osc # "playing" /\ ~tones[t].handled) =>
         (tones[t].elapsed >= tones[t].stopAt \/ tones[t].forced)

\* one stopAll cut two playing tones short
C18_Witness ==
  /\ lastOp = "stopAll"
  /\ \E t, u \in Silenced :
       /\ t # u
       /\ tones[t].elapsed < tones[t].stopAt
       /\ tones[u].elapsed < tones[u].stopAt

\* C19 as stated: after stopAll returns, no tone requested by a playTone call
\* issued before that stopAll is sounding, or starts sounding later: right after
\* the call nothing sounds, and a tone built by a playTone call that was still
\* awaiting initialize when stopAll ran never sounds.
C19_Original ==
  /\ lastOp = "stopAll" => \A t \in ToneIds : ~Sounding(t)
  /\ \A t \in ToneIds : tones[t].afterStop => ~Sounding(t)

\* the promise of tone t is settled by this step
Resolves(t) ==
  /\ tones'[t].promise = "resolved"
  /\ (t \in ToneIds => tones[t].promise = "pending")

\* C20 as stated: the promise returned by playTone is never resolved at tone
\* start nor at any time before the tone's scheduled end (start + durationMs).
C20_Original ==
  [][\A t \in 1..Len(tones') :
       Resolves(t) =>
         /\ t \in ToneIds
         /\ tones[t].elapsed >= tones[t].stopAt]_vars

\* C20 amended: the promise is resolved only by the ended event of the tone's
\* oscillator, never at tone start; for a tone that stopAll (or dispose) did
\* not stop, that is never before the scheduled end (start + durationMs); a
\* tone that stopAll stopped resolves when its ended event fires, before it.
C20_ResolvesWhenEnded ==
  [][\A t \in 1..Len(tones') :
       Resolves(t) =>
         /\ t \in ToneIds
         /\ tones[t].osc \in {"finished", "stopped"}
         /\ tones[t].forced \/ tones[t].elapsed >= tones[t].stopAt]_vars

\* the promise of a tone that ended has been resolved while the promise of a
\* tone that is still playing is pending
C20_Witness ==
  /\ \E t \in ToneIds : tones[t].handled /\ tones[t].promise = "resolved"
  /\ \E u \in ToneIds :
       /\ tones[u].osc = "playing"
       /\ tones[u].elapsed > 0
       /\ tones[u].promise = "pending"

\* the playTone promise of tone t is still pending
PromisePending(t) == t \in ToneIds /\ tones[t].promise = "pending"

PromiseResolved(t) == t \in ToneIds /\ tones[t].promise = "resolved"

\* C21 as stated: every playTone promise whose tone was started is eventually
\* resolved, never rejected and never left pending forever.
C21_Original ==
  /\ [](\A t \in ToneIds : tones[t].promise # "rejected")
  /\ \A t \in 1..MaxToneCalls : PromisePending(t) ~> PromiseResolved(t)

\* what does hold: the promise of a started tone is resolved unless the tone's
\* context is not running (closed by dispose, or still suspended)
C21_ResolvedWhileRunning ==
  \A t \in 1..MaxToneCalls :
     PromisePending(t) ~>
       (PromiseResolved(t) \/ (PromisePending(t) /\ contexts[tones[t].ctx] # "running"))

\* no context has been closed: dispose has not run on an acquired context
NoDispose == \A c \in 1..Len(contexts) : contexts[c] # "closed"

\* C22: initialize is idempotent and tolerates several call sites: under any
\* interleaving of initialize and playTone calls, overlapping ones included,
\* with no dispose in between, at most one AudioContext and at most one master
\* gain node are created; and an initialize call made while the engine is
\* initialized and its context running changes nothing.
C22_InitializeIdempotent ==
  /\ NoDispose => (Len(contexts) <= 1 /\ Len(masters) <= 1)
  /\ (isInitialized /\ audioContext # 0 /\ contexts[audioContext] = "running") =>
       \A fresh \in Fresh :
          initializeStart(Engine, fresh) = [engine |-> Engine, outcome |-> "done"]

\* an initialize call and a playTone call overlap: both are suspended at
\* resume() and one context has been created for the two
C22_Witness ==
  /\ NoDispose
  /\ Len(contexts) = 1
  /\ \E i, j \in 1..Len(awaiting) :
       awaiting[i].kind = "initialize" /\ awaiting[j].kind = "playTone"

\* the engine holds nothing: the state dispose leaves
Released(e) ==
  /\ e.audioContext = 0
  /\ e.masterGain = 0
  /\ ~e.isInitialized
  /\ e.activeOscillators = << >>
  /\ e.activeGainNodes = << >>

\* the context and the master gain of engine e did not exist in the current state
Reacquired(e) ==
  /\ e.audioContext = Len(contexts) + 1
  /\ e.masterGain # 0 => (e.masterGain = Len(masters) + 1 /\ e.masters[e.masterGain].ctx = e.audioContext)
  /\ \A t \in 1..Len(e.tones) :
       t > Len(tones) => (e.tones[t].ctx = e.audioContext /\ e.tones[t].master = Len(masters) + 1)

\* C23: after dispose the active arrays are empty, audioContext and masterGain
\* are null and isInitialized is false; the next initialize or playTone call
\* acquires a new context, and a new master gain before any tone is started;
\* and also when dispose interleaves with a call suspended at an await, every
\* tone is started on a context that is not closed and is connected to the
\* master gain created on that context.
C23_DisposeReleases ==
  /\ \A faults \in SUBSET MayRaise : Released(dispose(Engine, faults).engine)
  /\ lastOp = "dispose" => Released(Engine)
  /\ Released(Engine) =>
       \A fresh \in {"suspended", "running"}, options \in Requests :
          /\ Reacquired(initializeStart(Engine, fresh).engine)
          /\ Reacquired(playToneStart(Engine, options, fresh).engine)
  /\ masterGain # 0 => (audioContext # 0 /\ masters[masterGain].ctx = audioContext)
  /\ \A t \in ToneIds :
       tones[t].osc = "playing" =>
         /\ contexts[tones[t].ctx] # "closed"
         /\ masters[tones[t].master].ctx = tones[t].ctx

\* a playTone call that was suspended when dispose ran has built its tone on
\* the context and the master gain acquired after the dispose
C23_Witness ==
  /\ Len(contexts) = 2 /\ contexts[1] = "closed"
  /\ \E t \in ToneIds :
       /\ tones[t].afterStop
       /\ tones[t].osc = "playing"
       /\ tones[t].ctx = 2
       /\ masters[tones[t].master].ctx = 2

\* no initialize is in progress on the context the engine holds
NoCallInProgress == \A i \in 1..Len(awaiting) : awaiting[i].ctx # audioContext

\* C24 as stated: when acquiring or resuming the audio context fails during
\* initialize (or the initialize done by playTone) the failure is surfaced to
\* the caller and no partial state is retained: a failed acquisition changes
\* nothing, and once no call is in progress the engine holds either nothing
\* (audioContext and masterGain null, isInitialized false) or a complete
\* initialization, never a context without master gain.
C24_Original ==
  /\ audioContext = 0 =>
       /\ initializeStart(Engine, "throws") = [engine |-> Engine, outcome |-> "failed"]
       /\ \A options \in Requests :
            playToneStart(Engine, options, "throws") = [engine |-> Engine, promise |-> "rejected"]
  /\ NoCallInProgress =>
       \/ (audioContext = 0 /\ masterGain = 0 /\ ~isInitialized)
       \/ (audioContext # 0 /\ masterGain # 0 /\ isInitialized)

\* the master gain nodes that exist now are the same in engine e
KeepsMasters(e) == SubSeq(e.masters, 1, Len(masters)) = masters

\* C25: whenever a master gain stage exists its gain is 0.5; initialize,
\* playTone and stopAll do not change it after creation; a context gets one
\* master stage, and every chain built by playTone is connected to it: the
\* chains the engine tracks all feed the one master gain the engine holds.
C25_SharedMasterFixed ==
  /\ \A m \in 1..Len(masters) : masters[m].gain = MasterVolume
  /\ \A m, n \in 1..Len(masters) : masters[m].ctx = masters[n].ctx => m = n
  /\ \A fresh \in Fresh :
       /\ MayCreate(fresh) => KeepsMasters(initializeStart(Engine, fresh).engine)
       /\ \A options \in Requests :
            MayCreate(fresh) => KeepsMasters(playToneStart(Engine, options, fresh).engine)
  /\ \A faults \in SUBSET MayRaise : stopAll(Engine, faults).engine.masters = masters
  /\ \A t \in ToneIds :
       /\ ~tones[t].handled => masters[tones[t].master].ctx = tones[t].ctx
       /\ Tracked(t) => tones[t].master = masterGain

\* two chains are connected to the one master gain, whose gain is 0.5
C25_Witness ==
  /\ masterGain # 0
  /\ masters[masterGain].gain = 50
  /\ \E t, u \in ToneIds :
       /\ t # u
       /\ Tracked(t) /\ Tracked(u)
       /\ tones[t].master = masterGain /\ tones[u].master = masterGain

\* the chains playTone(options) builds in the current state: by a call made
\* now that is not suspended, and by a suspended call with these options that
\* is resumed now
TonesBuilt(options) ==
  LET made == {playToneStart(Engine, options, fresh) : fresh \in {f \in Fresh : MayCreate(f)}}
      resumed == {Resumed(Engine, awaiting[i]) :
                    i \in {j \in Pending("playTone") : awaiting[j].options = <<options>>}}
  IN {r.engine.tones[Len(r.engine.tones)] : r \in {x \in made \cup resumed : x.promise = "pending"}}

\* the chains that exist and whose ended event has not been handled
Live == {t \in ToneIds : ~tones[t].handled}

\* C26: the engine clamps the level: for any level passed to playTone the
\* level gain of the tone is that of a level within [-60 dB, 0 dB], so it
\* never exceeds referenceGain, 0.3 (3000 in units of 1/10000).
C26_Original ==
  \A t \in Live : tones[t].linearGain <= 3000

\* C27: ear = left sets pan -1, ear = right sets pan +1 and ear = both sets
\* pan 0, for every request playTone builds a chain for, and the pan of a
\* chain keeps this value while the chain exists.
C27_PanFollowsEar ==
  /\ \A options \in ToneRequests : \A tone \in TonesBuilt(options) :
       /\ options.ear = "left" => tone.pan = -1
       /\ options.ear = "right" => tone.pan = 1
       /\ options.ear = "both" => tone.pan = 0
  /\ \A t \in Live : tones[t].pan \in {-1, 0, 1}

\* a tone requested for both ears is playing, centered
C27_Witness ==
  \E t \in Live : tones[t].osc = "playing" /\ tones[t].pan = 0 /\ Tracked(t)

\* C29: the level gain of a chain is 0.3 x 10^(level/20), to the nearest
\* 1/10000: 0.3 for level 0, 0.03 for level -20 and 0.0003 for level -60.
C29_LevelGain ==
  \A options \in ToneRequests : \A tone \in TonesBuilt(options) :
     LET exact == 3000 * Pow10Of20th(options.level)
     IN /\ tone.linearGain * 10000 - exact <= 5000
        /\ exact - tone.linearGain * 10000 <= 5000
        /\ options.level = 0 => tone.linearGain = 3000
        /\ options.level = -20 => tone.linearGain = 300
        /\ options.level = -60 => tone.linearGain = 3

\* a tone requested at level -60 is playing with level gain 0.0003
C29_Witness ==
  \E t \in Live : tones[t].osc = "playing" /\ tones[t].linearGain = 3 /\ Tracked(t)

\* C30: for every durationMs d greater than 60, 1000 when omitted, playTone
\* schedules on the envelope gain, in this order, the value 0 at the start,
\* a linear ramp to 1 ending 10 ms later, the value 1 held until d - 50 ms
\* (a sustain of d - 10 - 50 ms) and a linear ramp to 0 ending at d ms, and
\* schedules the oscillator to stop d ms after it starts.
C30_EnvelopeSchedule ==
  \A options \in ToneRequests : \A tone \in TonesBuilt(options) :
     LET d == IF options.durationMs = << >> THEN 1000 ELSE options.durationMs[1]
     IN d > 60 =>
          /\ tone.envelope =
               << [method |-> "setValueAtTime", value |-> 0, at |-> 0],
                  [method |-> "linearRampToValueAtTime", value |-> 1, at |-> 10],
                  [method |-> "setValueAtTime", value |-> 1, at |-> 10 + (d - 10 - 50)],
                  [method |-> "linearRampToValueAtTime", value |-> 0, at |-> d] >>
          /\ \A i \in 1..3 : tone.envelope[i].at < tone.envelope[i + 1].at
          /\ tone.elapsed = 0
          /\ tone.osc = "playing"
          /\ tone.stopAt = d

\* a tone requested without durationMs has played its 1000 ms: attack until
\* 10 ms, sustain until 950 ms, release until its scheduled stop
C30_Witness ==
  \E t \in Live :
     /\ tones[t].osc = "finished"
     /\ tones[t].elapsed = 1000
     /\ tones[t].envelope[2].at = 10
     /\ tones[t].envelope[3].at = 950
     /\ tones[t].envelope[4].at = 1000

\* the oscillator of tone t has finished or was stopped and its ended event
\* has not been handled yet
EndedPending(t) == tones[t].osc \in {"finished", "stopped"} /\ ~tones[t].handled

\* C28: playTone calls that overlap are not serialized: a call on an
\* initialized engine starts its tone at once, whatever tones are playing,
\* and tracks it next to them; and when the ended event of one tone is
\* handled, only that tone's oscillator and envelope gain leave the arrays:
\* every other tone is tracked as before and its chain is untouched.
C28_OverlappingTonesIndependent ==
  /\ \A options \in Requests :
       (audioContext # 0 /\ masterGain # 0) =>
          LET r == playToneStart(Engine, options, "running")
              n == Len(tones) + 1
          IN /\ r.promise = "pending"
             /\ r.engine.tones[n].osc = "playing"
             /\ InSeq(n, r.engine.activeOscillators)
             /\ InSeq(n, r.engine.activeGainNodes)
             /\ \A u \in ToneIds :
                  /\ r.engine.tones[u] = tones[u]
                  /\ InSeq(u, r.engine.activeOscillators) <=> InSeq(u, activeOscillators)
                  /\ InSeq(u, r.engine.activeGainNodes) <=> InSeq(u, activeGainNodes)
  /\ \A t \in ToneIds :
       EndedPending(t) =>
          LET e == onended(Engine, t)
          IN /\ ~InSeq(t, e.activeOscillators)
             /\ ~InSeq(t, e.activeGainNodes)
             /\ \A u \in ToneIds \ {t} :
                  /\ e.tones[u] = tones[u]
                  /\ InSeq(u, e.activeOscillators) <=> InSeq(u, activeOscillators)
                  /\ InSeq(u, e.activeGainNodes) <=> InSeq(u, activeGainNodes)

\* two tones were playing together; the shorter one has ended and its ended
\* event was handled, the longer one is part-way through, tracked and audible
C28_Witness ==
  \E t, u \in ToneIds :
     /\ t # u
     /\ tones[t].handled
     /\ ~tones[u].handled
     /\ tones[u].elapsed > 0
     /\ Tracked(u)
     /\ Sounding(u)

\* the level the last call would have moved to without the clamp
UnclampedLevel ==
  IF lastCall = "heard"
  THEN input.currentLevel - config.stepSizeDown
  ELSE input.currentLevel + config.stepSizeUp

\* the last call updated the level, the clamp cut the step at minLevel or
\* maxLevel, and currentLevel is where it was
ClampedInPlace ==
  /\ calls > 0
  /\ ~EndedByMaxAttempts
  /\ (UnclampedLevel < config.minLevel \/ UnclampedLevel > config.maxLevel)
  /\ state.currentLevel = input.currentLevel

\* C31: a call whose level update is clamped at minLevel or maxLevel so that
\* currentLevel does not move still increments attempts, and increments
\* reversals exactly when the direction set by the response differs from the
\* previous direction and a prior response exists.
C31_ClampedCallStillCounts ==
  ClampedInPlace =>
    /\ state.attempts = input.attempts + 1
    /\ state.lastResponse = lastCall
    /\ state.direction = (IF lastCall = "heard" THEN "down" ELSE "up")
    /\ state.reversals =
         input.reversals +
           (IF state.direction # input.direction /\ input.lastResponse # NoResponse
            THEN 1 ELSE 0)

\* with a valid config, a heard response at minLevel after a notHeard: the
\* level stays at minLevel, the attempt and the reversal are counted
C31_Witness ==
  /\ ValidConfig(config)
  /\ ClampedInPlace
  /\ lastCall = "heard"
  /\ input.direction = "up"
  /\ state.currentLevel = config.minLevel
  /\ state.attempts = input.attempts + 1
  /\ state.reversals = input.reversals + 1

\* the number of positions i >= 2 of rs at which rs[i] differs from rs[i - 1]
Changes(rs) == Cardinality({i \in 2..Len(rs) : rs[i] # rs[i - 1]})

\* the responses processed so far, without a final response that was consumed
\* by the maxAttempts check
Counted ==
  IF calls > 0 /\ EndedByMaxAttempts THEN SubSeq(responses, 1, calls - 1) ELSE responses

\* C37 as stated: in every state reached from createStaircase, reversals is
\* the number of positions i >= 2 at which response i differs from response
\* i - 1, not counting a final response consumed by the maxAttempts check
\* (checked for the configs with maxAttempts >= 1).
C37_Original ==
  config.maxAttempts >= 1 => state.reversals = Changes(Counted)

\* C37 amended: the same equality in every state in which no call was made
\* after the call that returned shouldContinue=false.
C37_ReversalsCountChanges ==
  InRun => state.reversals = Changes(Counted)

\* a run of three calls in which one change of response was counted and the
\* last response, which differs from the second, was consumed by maxAttempts
C37_Witness ==
  /\ InRun
  /\ calls = 3
  /\ EndedByMaxAttempts
  /\ lastCall # responses[2]
  /\ Changes(responses) = 2
  /\ state.reversals = 1

\* C38: termination is absorbing: on a state returned by a terminating call,
\* and on every state returned after it, processResponse with any response
\* returns shouldContinue=false with a non-null threshold.
C38_TerminationAbsorbing ==
  /\ endedAt # 0 => (~shouldContinue /\ threshold # NoThreshold)
  /\ (calls > 0 /\ ~shouldContinue) =>
       \A response \in Response :
          LET result == processResponse(state, config, response)
          IN /\ ~result.shouldContinue
             /\ result.threshold # NoThreshold
             /\ result.newState.threshold = result.threshold

\* a run ended by maxReversals with attempts to spare, and a further call on
\* the terminated state returned shouldContinue=false again
C38_Witness ==
  /\ endedAt # 0
  /\ calls > endedAt
  /\ state.attempts < config.maxAttempts
  /\ config.maxReversals >= 1
  /\ ~shouldContinue
  /\ threshold # NoThreshold

\* ------------------------------------------------------ storage: vocabulary
\* every saveTestResult call so far wrote its item
AllWritten == \A i \in 1..Len(saved) : saved[i].written

\* the results of the last k calls, newest first
NewestFirst(k) == [i \in 1..k |-> saved[Len(saved) + 1 - i].result]

\* C35: after any sequence of n saveTestResult calls that all reached the
\* storage, the stored history is the min(n, 10) most recently saved results,
\* newest first, and lastResult is the most recently saved result; the
\* history never holds more than 10 results.
C35_HistoryNewestTen ==
  LET stored == loadStoredResults(storage)
      n == Len(saved)
  IN /\ Len(stored.history) <= 10
     /\ AllWritten =>
          /\ stored.history = NewestFirst(IF n <= 10 THEN n ELSE 10)
          /\ n > 0 => stored.lastResult = <<saved[n].result>>
          /\ n > 0 => getLastResult(storage) = <<saved[n].result>>
          /\ n = 0 => stored.lastResult = << >>

\* eleven results were saved: the history holds the last ten, the first is gone
C35_Witness ==
  LET stored == loadStoredResults(storage)
  IN /\ Len(saved) = 11
     /\ AllWritten
     /\ Len(stored.history) = 10
     /\ stored.history[1] = saved[11].result
     /\ stored.history[10] = saved[2].result

\* ------------------------------------------------------- wizard: vocabulary
\* the tones that are sounding: the calls in flight that were neither
\* rejected nor stopped
TonesSounding == {i \in 1..Len(playing) : playing[i].outcome = "plays"}

\* C36: in the test wizard at most one tone is in flight at any time: no
\* playTone call is started while a previously started tone has not yet
\* finished.
C36_Original == Cardinality(TonesSounding) <= 1

\* this step is a processResponse call of handleTestResponse: in the test
\* steps testState changes only there
ResponseProcessed ==
  /\ step \in TestSteps
  /\ testState.staircaseState # NoStaircase
  /\ testState' # testState

\* C32: in the test wizard, every response passed to processResponse is
\* preceded by a completed presentation of the tone at the current staircase
\* level: a heard/notHeard response is never accepted for a level that has
\* not been played to completion since the previous response.
C32_Original == [][ResponseProcessed => presented]_vars

\* this step starts an ear/frequency run: the test goes on at another ear or
\* another frequency
RunStarts ==
  /\ step' \in TestSteps
  /\ ~testState'.testComplete
  /\ <<step', testState'.currentFrequencyIndex>> # <<step, testState.currentFrequencyIndex>>

\* the staircase as createStaircase() returns it
FreshStaircase(staircase) ==
  /\ staircase = createStaircase(NoOverrides)
  /\ staircase.state.attempts = 0
  /\ staircase.state.reversals = 0
  /\ staircase.state.currentLevel = staircase.config.initialLevel
  /\ staircase.state.lastResponse = NoResponse

\* a processResponse call has ended the run of this staircase
RunEnded(staircase) ==
  \/ staircase.state.threshold # NoThreshold
  \/ staircase.state.attempts >= staircase.config.maxAttempts
  \/ staircase.state.reversals >= staircase.config.maxReversals

\* C33: in the test wizard, each ear/frequency run starts from a fresh
\* createStaircase state (attempts 0, reversals 0, currentLevel =
\* initialLevel, lastResponse null): no staircase state is carried over from
\* the previous frequency or from the left ear to the right ear, and no
\* response is ever processed on a state that has already terminated.
C33_FreshStaircasePerRun ==
  [][/\ RunStarts =>
          /\ testState'.staircaseState # NoStaircase
          /\ FreshStaircase(testState'.staircaseState[1])
     /\ ResponseProcessed => ~RunEnded(testState.staircaseState[1])]_vars

\* the right ear has just taken over from the left ear, which ended its last
\* run with a threshold: the staircase is a new one
C33_Witness ==
  /\ step = "test-right"
  /\ testState.currentFrequencyIndex = 0
  /\ testState.leftThresholds[8000] # NoThreshold
  /\ testState.staircaseState # NoStaircase
  /\ FreshStaircase(testState.staircaseState[1])

\* the thresholds of a testState, by ear
ThresholdsOf(ts) ==
  [ear \in TestedEars |-> IF ear = "left" THEN ts.leftThresholds ELSE ts.rightThresholds]

\* every frequency of the ear has a threshold
EarDone(ts, ear) == \A f \in Frequency : ThresholdsOf(ts)[ear][f] # NoThreshold

\* the thresholds came in the order of the test: frequency by frequency, the
\* left ear before the right ear
InTestOrder(ts) ==
  /\ \A ear \in TestedEars : \A i, j \in 1..Len(FREQUENCIES) :
        i < j /\ ThresholdsOf(ts)[ear][FREQUENCIES[j]] # NoThreshold
          => ThresholdsOf(ts)[ear][FREQUENCIES[i]] # NoThreshold
  /\ (\E f \in Frequency : ts.rightThresholds[f] # NoThreshold) => EarDone(ts, "left")

\* what the processResponse call of this step returned
ResultOfResponse ==
  LET staircase == testState.staircaseState[1]
  IN processResponse(staircase.state, staircase.config,
                     Respond(listener[EarOf(step)], staircase.state))

\* the thresholds change only with the terminating processResponse call of a
\* run, which sets the threshold of the run's ear and frequency to the one it
\* returned
ThresholdsFollowRuns ==
  ThresholdsOf(testState') =
    IF ResponseProcessed /\ ~ResultOfResponse.shouldContinue
    THEN [ThresholdsOf(testState) EXCEPT
            ![EarOf(step)][CurrentFreq(testState)] = ResultOfResponse.threshold]
    ELSE ThresholdsOf(testState)

\* saveTestResult was called if and only if the test is complete, once, with
\* the twelve thresholds of the test
SavedWhenComplete ==
  /\ Len(saved) <= 1
  /\ InTestOrder(testState)
  /\ (saved # << >>) = (step = "results")
  /\ (saved # << >>) = testState.testComplete
  /\ saved # << >> =>
       /\ \A ear \in TestedEars : EarDone(testState, ear)
       /\ saved[1].result.thresholds = ThresholdsOf(testState)
       /\ savedResult = <<saved[1].result>>
       /\ saved[1].written => getLastResult(storage) = <<saved[1].result>>

\* C34: in the test wizard, saveTestResult is called exactly once per
\* completed test, only after all six frequencies (250, 500, 1000, 2000, 4000,
\* 8000 Hz) of the left ear and then of the right ear have a non-null
\* threshold, each equal to the threshold returned by the terminating
\* processResponse call of that ear/frequency run; the results step is entered
\* only then.
C34_SavedOnceWhenComplete == []SavedWhenComplete /\ [][ThresholdsFollowRuns]_vars

\* a test is complete and saved: the left ear pressed the buttons in turn (its
\* runs end at -32 dB after four reversals), the right ear heard every tone
\* (its runs end at -60 dB after twenty attempts)
C34_Witness ==
  /\ step = "results"
  /\ Len(saved) = 1
  /\ saved[1].written
  /\ \A f \in Frequency : saved[1].result.thresholds["left"][f] = <<0 - 32>>
  /\ \A f \in Frequency : saved[1].result.thresholds["right"][f] = <<0 - 60>>

====
